---- MODULE Spec2Model ----
(***************************************************************************)
(* ckdb: the accounting daemon of ckpool (src/src/ckdb.c).                 *)
(*                                                                         *)
(* Text values are TLA+ strings; characters are read with SubSeq.  The DB  *)
(* is a set of typed rows per table; every entity of the daemon is a       *)
(* K_LIST free list (a sequence of item numbers) and a K_STORE of linked   *)
(* items (a set of rows, each carrying the number of its item).            *)
(***************************************************************************)
EXTENDS Integers, Sequences, FiniteSets, TLC

(***************************************************************************)
(* Characters and C string functions                                       *)
(***************************************************************************)
\* the printable ASCII characters: code 32 (space) to 95 (_) and code 97 (a)
\* to 126 (~); code 96 cannot be written in a TLA+ string and is left out
AsciiLo == " !\"#$%&'()*+,-./0123456789:;<=>?@ABCDEFGHIJKLMNOPQRSTUVWXYZ[\\]^_"
AsciiHi == "abcdefghijklmnopqrstuvwxyz{|}~"

Ch(s, i) == SubSeq(s, i, i)

\* the code of every character
AsciiCode ==
    [c \in {Ch(AsciiLo, i) : i \in 1..Len(AsciiLo)} \cup {Ch(AsciiHi, i) : i \in 1..Len(AsciiHi)} |->
        IF \E i \in 1..Len(AsciiLo) : Ch(AsciiLo, i) = c
        THEN 31 + (CHOOSE i \in 1..Len(AsciiLo) : Ch(AsciiLo, i) = c)
        ELSE 96 + (CHOOSE i \in 1..Len(AsciiHi) : Ch(AsciiHi, i) = c)]

Ord(c) == AsciiCode[c]

InRange(o, lo, hi) == o >= lo /\ o <= hi
IsDigit(c) == InRange(Ord(c), 48, 57)
IsUpper(c) == InRange(Ord(c), 65, 90)
IsLower(c) == InRange(Ord(c), 97, 122)
IsAlnum(c) ==
    LET Code(o) == InRange(o, 48, 57) \/ InRange(o, 65, 90) \/ InRange(o, 97, 122)
    IN  Code(Ord(c))
IsHex(c) ==
    LET Code(o) == InRange(o, 48, 57) \/ InRange(o, 65, 70) \/ InRange(o, 97, 102)
    IN  Code(Ord(c))
IsSpace(c) == c = " "

\* tolower() of one character, as its code
LowerOrd(c) ==
    LET Lower(o) == IF InRange(o, 65, 90) THEN o + 32 ELSE o
    IN  Lower(Ord(c))

\* strcmp(): negative, zero or positive
RECURSIVE StrCmpFrom(_, _, _)
StrCmpFrom(a, b, i) ==
    IF i > Len(a) /\ i > Len(b) THEN 0
    ELSE IF i > Len(a) THEN -1
    ELSE IF i > Len(b) THEN 1
    ELSE IF Ch(a, i) # Ch(b, i) THEN Ord(Ch(a, i)) - Ord(Ch(b, i))
    ELSE StrCmpFrom(a, b, i + 1)

StrCmp(a, b) == StrCmpFrom(a, b, 1)

\* the comparison, were it strcmp() = 0
StrCaseEq_exact(a, b) == a = b

\* strcasecmp() = 0
StrCaseEq(a, b) ==
    /\ Len(a) = Len(b)
    /\ \A i \in 1..Len(a) : LowerOrd(Ch(a, i)) = LowerOrd(Ch(b, i))

\* strncmp(t, pre, strlen(pre)) = 0
HasPrefix(t, pre) == Len(t) >= Len(pre) /\ SubSeq(t, 1, Len(pre)) = pre

\* the copy, were the byte at siz - 1 not overwritten with the terminator
StrNCpy_full(src, siz) == IF Len(src) > siz THEN SubSeq(src, 1, siz) ELSE src

\* STRNCPY(trg, src) into a buffer of siz bytes: at most siz-1 characters
StrNCpy(src, siz) == IF Len(src) > siz - 1 THEN SubSeq(src, 1, siz - 1) ELSE src

\* position after the white space that starts at i
RECURSIVE SkipSpace(_, _)
SkipSpace(s, i) == IF i <= Len(s) /\ IsSpace(Ch(s, i)) THEN SkipSpace(s, i + 1) ELSE i

\* the digits that start at i: [val, next], next = i when there is none
RECURSIVE ScanDigits(_, _, _)
ScanDigits(s, i, acc) ==
    IF i <= Len(s) /\ IsDigit(Ch(s, i))
    THEN ScanDigits(s, i + 1, acc * 10 + (Ord(Ch(s, i)) - 48))
    ELSE [val |-> acc, next |-> i]

\* one integer conversion of scanf/atoi: white space, a sign, digits.  The
\* conversion starts at i, its sign or digits at j, its digits at k; d is
\* what ScanDigits found at k
ScanInt(s, i) ==
    LET Digits(k, neg, d) ==
            IF d.next = k THEN [ok |-> FALSE, val |-> 0, next |-> i]
            ELSE [ok |-> TRUE, val |-> IF neg THEN 0 - d.val ELSE d.val, next |-> d.next]
        Sign(k, neg) == Digits(k, neg, ScanDigits(s, k, 0))
        At(j) == Sign(IF j <= Len(s) /\ (Ch(s, j) = "-" \/ Ch(s, j) = "+") THEN j + 1 ELSE j,
                      j <= Len(s) /\ Ch(s, j) = "-")
    IN  At(SkipSpace(s, i))

\* atoll()/atoi(): 0 when the text does not start with a number
Atoll(s) == ScanInt(s, 1).val

\* snprintf("%" PRId64): the decimal text of an integer
RECURSIVE NatToText(_)
NatToText(n) ==
    IF n < 10 THEN Ch("0123456789", n + 1)
    ELSE NatToText(n \div 10) \o Ch("0123456789", (n % 10) + 1)

bigint_to_buf(n) == IF n < 0 THEN "-" \o NatToText(0 - n) ELSE NatToText(n)

\* sscanf(): fmt is a sequence of directives, "u" and "d" convert an integer,
\* a blank matches any white space, another character matches itself.  The
\* result is the sequence of converted values; its length is sscanf's n.
RECURSIVE SscanfFrom(_, _, _, _, _)
SscanfFrom(fmt, f, s, i, out) ==
    LET Conv(r) == IF r.ok THEN SscanfFrom(fmt, f + 1, s, r.next, Append(out, r.val)) ELSE out
    IN
    IF f > Len(fmt) THEN out
    ELSE IF fmt[f] = "u" \/ fmt[f] = "d" THEN Conv(ScanInt(s, i))
    ELSE IF fmt[f] = " " THEN SscanfFrom(fmt, f + 1, s, SkipSpace(s, i), out)
    ELSE IF i <= Len(s) /\ Ch(s, i) = fmt[f] THEN SscanfFrom(fmt, f + 1, s, i + 1, out)
    ELSE out

Sscanf(fmt, s) == SscanfFrom(fmt, 1, s, 1, <<>>)

(***************************************************************************)
(* Program constants                                                       *)
(***************************************************************************)
TXT_BIG == 256
TXT_SML == 64
TXT_MED == 128
\* TLC's integers have 32 bits, so a time is kept as [day, sod, usec]: the
\* days since the epoch, the second of the day and the microseconds.
SecsPerDay == 24 * 60 * 60
\* DEFAULT_EXPIRY 148204965966L = 1715335 * 86400 + 21966, 6-Jun-6666 06:06:06
default_expiry == [day |-> 1715335, sod |-> 21966, usec |-> 0]
\* COMPARE_EXPIRY 148204512000L = 1715330 * 86400, 1-Jun-6666 00:00:00
COMPARE_EXPIRY == [day |-> 1715330, sod |-> 0, usec |-> 0]
\* DATE_S_EOT 253402300799L = 2932896 * 86400 + 86399 and DATE_uS_EOT 0L
date_eot == [day |-> 2932896, sod |-> 86399, usec |-> 0]
\* STATS_PER (9.5*60.0) seconds
STATS_PER == 570
DIFFICULTYDEFAULT_MIN == 10
DIFFICULTYDEFAULT_MAX == 1000000
IDLENOTIFICATIONTIME_MIN == 10
IDLENOTIFICATIONTIME_MAX == 60

\* the by, code and inet the listener passes to every handler
ListenerBy == "code"
ListenerCode == "listener"
ListenerInet == "127.0.0.1"

(***************************************************************************)
(* Time                                                                    *)
(***************************************************************************)
\* a time_t of seconds (below 2^31 in the model) as a time
TvOfSecs(sec, usec) == [day |-> sec \div SecsPerDay, sod |-> sec % SecsPerDay, usec |-> usec]

\* the sign of tvdiff(a, b): -1, 0 or 1
TvCmp(a, b) ==
    IF a.day # b.day THEN (IF a.day < b.day THEN -1 ELSE 1)
    ELSE IF a.sod # b.sod THEN (IF a.sod < b.sod THEN -1 ELSE 1)
    ELSE IF a.usec # b.usec THEN (IF a.usec < b.usec THEN -1 ELSE 1)
    ELSE 0

\* tvdiff(a, b) > secs, for a whole number of seconds below a day
TvDiffExceeds(a, b, secs) ==
    LET dd == a.day - b.day
        k == dd * SecsPerDay + a.sod - b.sod - secs
    IN  IF dd > 1 THEN TRUE
        ELSE IF dd < -1 THEN FALSE
        ELSE IF k >= 2 THEN TRUE
        ELSE IF k <= -2 THEN FALSE
        ELSE k * 1000000 + a.usec - b.usec > 0

\* mktime() of a broken-down time, the process running with TZ=UTC
MkTime(yyyy, mm, dd, HH, MM, SS) ==
    LET y == IF mm <= 2 THEN yyyy - 1 ELSE yyyy
        era == y \div 400
        yoe == y - era * 400
        mp == IF mm > 2 THEN mm - 3 ELSE mm + 9
        doy == (153 * mp + 2) \div 5 + dd - 1
        doe == yoe * 365 + yoe \div 4 - yoe \div 100 + doy
        days == era * 146097 + doe - 719468
        s == HH * 3600 + MM * 60 + SS
    IN  [day |-> days + s \div SecsPerDay, sod |-> s % SecsPerDay, usec |-> 0]

TvFmt == <<"u", "-", "u", "-", "u", " ", "u", ":", "u", ":", "u", "+", "u">>
TvFmtUs == <<"u", "-", "u", "-", "u", " ", "u", ":", "u", ":", "u", ".", "u", "+", "u">>

\* a number in decimal, padded with zeros to w digits: printf("%0wd")
RECURSIVE Pad(_, _)
Pad(n, w) == IF w <= 1 \/ n >= 10 ^ (w - 1) THEN NatToText(n) ELSE "0" \o Pad(n, w - 1)

\* data_to_buf(TYPE_TV): localtime_r() with TZ=UTC, strftime() of
\* "%Y-%m-%d %H:%M:%S" and the microseconds as ".%06ld"
tv_to_buf(tv) ==
    LET Text(y, m, d) ==
            Pad(y, 4) \o "-" \o Pad(m, 2) \o "-" \o Pad(d, 2) \o " "
            \o Pad(tv.sod \div 3600, 2) \o ":" \o Pad((tv.sod % 3600) \div 60, 2) \o ":"
            \o Pad(tv.sod % 60, 2) \o "." \o Pad(tv.usec, 6)
        Month(y, m, d) == Text(IF m <= 2 THEN y + 1 ELSE y, m, d)
        Mp(y, doy, mp) ==
            Month(y, IF mp < 10 THEN mp + 3 ELSE mp - 9, doy - (153 * mp + 2) \div 5 + 1)
        Doy(y, doy) == Mp(y, doy, (5 * doy + 2) \div 153)
        Yoe(era, doe, yoe) ==
            Doy(yoe + era * 400, doe - (365 * yoe + yoe \div 4 - yoe \div 100))
        Doe(era, doe) ==
            Yoe(era, doe,
                (doe - doe \div 1460 + doe \div 36524 - doe \div 146096) \div 365)
        Era(z, era) == Doe(era, z - era * 146097)
        Days(z) == Era(z, z \div 146097)
    IN  Days(tv.day + 719468)

\* txt_to_data(TYPE_TV): quit is TRUE when the text is in neither format and
\* the process exits in quithere()
\* a and b are what the two sscanf() calls converted, f the one that is used
TxtToTv(fld) ==
    LET Time(tim, uS) ==
            IF TvCmp(tim, COMPARE_EXPIRY) > 0 THEN [quit |-> FALSE, tv |-> default_expiry]
            ELSE [quit |-> FALSE, tv |-> [tim EXCEPT !.usec = uS]]
        Fields(f, uS) == Time(MkTime(f[1], f[2], f[3], f[4], f[5], f[6]), uS)
        Scanned(a, b) ==
            IF Len(a) # 7 /\ Len(b) # 8 THEN [quit |-> TRUE, tv |-> TvOfSecs(0, 0)]
            ELSE IF Len(a) = 7 THEN Fields(a, 0)
            ELSE Fields(b, b[7])
    IN  Scanned(Sscanf(TvFmt, fld), Sscanf(TvFmtUs, fld))

(***************************************************************************)
(* Transfer map: the fields of one request, a function from names to text  *)
(***************************************************************************)
\* the character classes of the validation patterns
IsUserCh(c) == InRange(Ord(c), 33, 126)
IsMailLocal1(c) == IsAlnum(c) \/ c = "_" \/ c = "-"
IsMailLocal(c) == IsAlnum(c) \/ c = "_" \/ c = "." \/ c = "-"
IsMailDom(c) == IsAlnum(c) \/ c = "."
IsId1(c) == IsUpper(c) \/ IsLower(c) \/ c = "_"
IsIdCh(c) == IsAlnum(c) \/ c = "_"

\* the validation patterns; nopatt is the NULL a handler passes for no pattern
userpatt == "^[!-~]*$"
mailpatt == "^[A-Za-z0-9_-][A-Za-z0-9_\\.-]*@[A-Za-z0-9][A-Za-z0-9\\.]*[A-Za-z0-9]$"
idpatt == "^[_A-Za-z][_A-Za-z0-9]*$"
intpatt == "^[0-9][0-9]*$"
hashpatt == "^[A-Fa-f0-9]*$"
nopatt == ""

\* the local part of a mail address ends before position k and its domain
\* starts after it
MailSplitAt(v, k) ==
    /\ Ch(v, k) = "@"
    /\ IsMailLocal1(Ch(v, 1))
    /\ \A i \in 2..(k - 1) : IsMailLocal(Ch(v, i))
    /\ IsAlnum(Ch(v, k + 1))
    /\ \A i \in (k + 2)..(Len(v) - 1) : IsMailDom(Ch(v, i))
    /\ IsAlnum(Ch(v, Len(v)))

\* regcomp() and regexec() = 0: the text v matches the pattern
regexec(patt, v) ==
    IF patt = userpatt THEN \A i \in 1..Len(v) : IsUserCh(Ch(v, i))
    ELSE IF patt = mailpatt THEN \E k \in 2..(Len(v) - 2) : MailSplitAt(v, k)
    ELSE IF patt = idpatt THEN Len(v) >= 1 /\ IsId1(Ch(v, 1)) /\ \A i \in 1..Len(v) : IsIdCh(Ch(v, i))
    ELSE IF patt = intpatt THEN Len(v) >= 1 /\ \A i \in 1..Len(v) : IsDigit(Ch(v, i))
    ELSE IF patt = hashpatt THEN \A i \in 1..Len(v) : IsHex(Ch(v, i))
    ELSE FALSE

\* find_transfer(name) found an entry
HasName(tm, name) == name \in DOMAIN tm

\* optional_name(): TRUE when it returns the entry; rec is set when regcomp()
\* does not return 0
optional_name_re(tm, name, len, patt, rec) ==
    /\ HasName(tm, name)
    /\ tm[name] # ""
    /\ Len(tm[name]) >= len
    /\ patt = nopatt \/ (~rec /\ regexec(patt, tm[name]))

\* optional_name() with a pattern regcomp() compiles, as all those of the
\* program are
optional_name(tm, name, len, patt) == optional_name_re(tm, name, len, patt, FALSE)

\* require_name() with the pattern looked at before the length
require_name_re_patt_first(tm, name, len, patt, rec) ==
    IF ~HasName(tm, name) THEN "failed.missing " \o name
    ELSE IF patt # nopatt /\ rec THEN "failed.REC " \o name
    ELSE IF patt # nopatt /\ ~regexec(patt, tm[name]) THEN "failed.invalid " \o name
    ELSE IF tm[name] = "" \/ Len(tm[name]) < len THEN "failed.short " \o name
    ELSE ""

\* require_name(): the reply it writes when it fails, "" when it returns the
\* entry; rec is set when regcomp() does not return 0
require_name_re(tm, name, len, patt, rec) ==
    IF ~HasName(tm, name) THEN "failed.missing " \o name
    ELSE IF tm[name] = "" \/ Len(tm[name]) < len THEN "failed.short " \o name
    ELSE IF patt # nopatt /\ rec THEN "failed.REC " \o name
    ELSE IF patt # nopatt /\ ~regexec(patt, tm[name]) THEN "failed.invalid " \o name
    ELSE ""

\* require_name() with a pattern regcomp() compiles, as all those of the
\* program are
require_name(tm, name, len, patt) == require_name_re(tm, name, len, patt, FALSE)

\* the replies of the require_name() calls of a handler; reqs is the sequence
\* of their <<name, len, patt>> in the order of the calls
RequireNames(tm, reqs) ==
    [i \in DOMAIN reqs |-> require_name(tm, reqs[i][1], reqs[i][2], reqs[i][3])]

\* the reply of the first require_name() of a handler that fails; reqs is the
\* sequence of the replies of its require_name() calls in order
RECURSIVE FirstFailure(_)
FirstFailure(reqs) ==
    IF reqs = <<>> THEN ""
    ELSE IF Head(reqs) # "" THEN Head(reqs)
    ELSE FirstFailure(Tail(reqs))

(***************************************************************************)
(* Bounds of the model                                                     *)
(***************************************************************************)
\* requests served in one run
MaxReq == 2
\* DB statements (or connections) that fail in one run for a reason other
\* than a key the DB already holds
MaxFaults == 1
\* items of every K_LIST: more than setup and a run can link
NItems == MaxReq + 3

(***************************************************************************)
(* State                                                                   *)
(***************************************************************************)
VARIABLES
    db_users, db_workers, db_workinfo, db_auths, db_poolstats, \* DB tables: sets of rows
    db_idcontrol,       \* DB table idcontrol: idname -> lastid, for the rows that exist
    users_root, userid_root, users_list,
    workers_root, workers_list,
    workinfo_root, workinfo_list,
    shares_root, shares_list,
    shareerrors_root, shareerrors_list,
    auths_root, auths_list,
    poolstats_root, poolstats_list,
    payments_root, payments_list,
    db_payments,        \* DB table payments
    transfer_root,      \* the transfer map: name -> value of the fields breakdown() linked
    sockd,              \* the connection accepted last: the message it delivered,
                        \* the replies sent on it and whether it was closed
    now,                \* the clock setnow() reads
    running,            \* FALSE once the listener has left its loop or the process
                        \* has exited in quithere()
    req,                \* the command and transfer map of the last request
    reply,              \* the reply of its handler, "" when none was sent
    stmts,              \* the DB statements the handler issued, with their outcome
    conns,              \* the DB sessions dbconnect() opened that are still open
    nreq, faults,       \* requests served and faults injected so far
    proc                \* the handlers that run side by side, each on its own DB session

dbvars == <<db_users, db_workers, db_workinfo, db_auths, db_poolstats, db_idcontrol>>
usersvars == <<users_root, userid_root, users_list>>
workersvars == <<workers_root, workers_list>>
workinfovars == <<workinfo_root, workinfo_list>>
sharesvars == <<shares_root, shares_list, shareerrors_root, shareerrors_list>>
authsvars == <<auths_root, auths_list>>
poolstatsvars == <<poolstats_root, poolstats_list>>
paymentsvars == <<payments_root, payments_list, db_payments>>
memvars == <<usersvars, workersvars, workinfovars, sharesvars, authsvars, poolstatsvars>>
vars == <<dbvars, memvars, paymentsvars, transfer_root, sockd, now, running, req, reply,
          stmts, conns, nreq, faults, proc>>

(***************************************************************************)
(* K_LIST, K_TREE and the DB                                               *)
(***************************************************************************)
\* a K_LIST is the sequence of its free items, head first
k_new_list == [i \in 1..NItems |-> i]
k_unlink_head(list) == Tail(list)
k_add_head(list, item) == <<item>> \o list

\* a K_TREE is the set of the rows linked into it; NULL is no item
NULL == [item |-> 0]
new_ktree == {}
add_to_ktree(root, row) == root \cup {row}

\* the comparison functions the trees are searched with
cmp_users(a, b) ==
    LET Then(c) == IF c = 0 THEN TvCmp(b.expirydate, a.expirydate) ELSE c
    IN  Then(StrCmp(a.username, b.username))

cmp_userid(a, b) ==
    IF a.userid # b.userid THEN a.userid - b.userid
    ELSE TvCmp(b.expirydate, a.expirydate)

cmp_workers(a, b) ==
    IF a.userid # b.userid THEN a.userid - b.userid
    ELSE LET Then(c) == IF c = 0 THEN TvCmp(b.expirydate, a.expirydate) ELSE c
         IN  Then(StrCmp(a.workername, b.workername))

cmp_workinfo(a, b) ==
    IF a.workinfoid # b.workinfoid THEN a.workinfoid - b.workinfoid
    ELSE TvCmp(b.expirydate, a.expirydate)

cmp_poolstats(a, b) ==
    LET Then(c) == IF c = 0 THEN TvCmp(a.createdate, b.createdate) ELSE c
    IN  Then(StrCmp(a.poolinstance, b.poolinstance))

\* order by userid asc, paydate desc, payaddress asc, expirydate desc
cmp_payments_desc(a, b) ==
    IF a.userid # b.userid THEN a.userid - b.userid
    ELSE LET Addr(c) == IF c = 0 THEN TvCmp(b.expirydate, a.expirydate) ELSE c
             Date(c) == IF c = 0 THEN Addr(StrCmp(a.payaddress, b.payaddress)) ELSE c
         IN  Date(TvCmp(b.paydate, a.paydate))

\* order by userid asc, paydate asc, payaddress asc, expirydate desc
cmp_payments(a, b) ==
    IF a.userid # b.userid THEN a.userid - b.userid
    ELSE LET Addr(c) == IF c = 0 THEN TvCmp(b.expirydate, a.expirydate) ELSE c
             Date(c) == IF c = 0 THEN Addr(StrCmp(a.payaddress, b.payaddress)) ELSE c
         IN  Date(TvCmp(a.paydate, b.paydate))

\* the call of the comparison function cmp
Compare(cmp, a, b) ==
    IF cmp = "cmp_users" THEN cmp_users(a, b)
    ELSE IF cmp = "cmp_userid" THEN cmp_userid(a, b)
    ELSE IF cmp = "cmp_workers" THEN cmp_workers(a, b)
    ELSE IF cmp = "cmp_workinfo" THEN cmp_workinfo(a, b)
    ELSE IF cmp = "cmp_payments" THEN cmp_payments(a, b)
    ELSE cmp_poolstats(a, b)

\* find_in_ktree(): an item that compares equal to the look item
find_in_ktree(root, look, cmp) ==
    LET Found(found) == IF found = {} THEN NULL ELSE CHOOSE r \in found : TRUE
    IN  Found({r \in root : Compare(cmp, r, look) = 0})

\* find_before_in_ktree(): the last item that sorts before the look item
find_before_in_ktree(root, look, cmp) ==
    LET Last(before) ==
            IF before = {} THEN NULL
            ELSE CHOOSE r \in before : \A q \in before : Compare(cmp, q, r) <= 0
    IN  Last({r \in root : Compare(cmp, r, look) < 0})

\* find_after_in_ktree() and the next_in_ktree() calls that follow it: the
\* items that sort after the look item, in the order of the tree
RECURSIVE find_after_in_ktree(_, _, _)
find_after_in_ktree(root, look, cmp) ==
    LET Next(after, first) == <<first>> \o find_after_in_ktree(after, first, cmp)
        First(after) ==
            IF after = {} THEN <<>>
            ELSE Next(after, CHOOSE r \in after : \A q \in after : Compare(cmp, r, q) <= 0)
    IN  First({r \in root : Compare(cmp, r, look) > 0})

\* the columns of a row of memory: all its fields but the item
DbRow(row) == [f \in (DOMAIN row) \ {"item"} |-> row[f]]

\* the DB accepts an insert when the statement does not fail and no row of the
\* table has the same values in all the columns of one of the table's keys
DbAccepts(table, row, keys, stmtok) ==
    /\ stmtok
    /\ \A key \in keys : ~\E old \in table : \A col \in key : old[col] = row[col]

users_keys == {{"userid", "expirydate"}, {"username", "expirydate"}}
workers_keys == {{"workerid", "expirydate"}, {"userid", "workername", "expirydate"}}
workinfo_keys == {{"workinfoid", "expirydate"}}
auths_keys == {{"authid", "expirydate"}}
poolstats_keys == {}

\* one entry of stmts
Stmt(sql, ok) == [sql |-> sql, ok |-> ok]

(***************************************************************************)
(* History fields                                                          *)
(***************************************************************************)
Merge(r1, r2) ==
    [f \in (DOMAIN r1) \cup (DOMAIN r2) |-> IF f \in DOMAIN r2 THEN r2[f] ELSE r1[f]]

SIMPLEDATEINIT(tnow, by, code, inet) ==
    [createdate |-> tnow,
     createby |-> StrNCpy(by, TXT_SML + 1),
     createcode |-> StrNCpy(code, TXT_MED + 1),
     createinet |-> StrNCpy(inet, TXT_MED + 1)]

HISTORYDATEINIT(tnow, by, code, inet) ==
    Merge(SIMPLEDATEINIT(tnow, by, code, inet), [expirydate |-> default_expiry])

\* the createdate of a row after SIMPLEDATETRANSFER/HISTORYDATETRANSFER
\* n holds the numbers sscanf("%ld,%ld") converted
TransferCreatedate(old, tm) ==
    LET Scanned(n) ==
            IF Len(n) > 1 THEN TvOfSecs(n[1], n[2])
            ELSE IF Len(n) > 0 THEN TvOfSecs(n[1], 0)
            ELSE old
    IN  IF optional_name(tm, "createdate", 10, nopatt)
        THEN Scanned(Sscanf(<<"d", ",", "d">>, tm["createdate"]))
        ELSE old

TransferStr(old, tm, name, siz) ==
    IF optional_name(tm, name, 1, nopatt) THEN StrNCpy(tm[name], siz) ELSE old

SIMPLEDATETRANSFER(row, tm) ==
    [row EXCEPT !.createdate = TransferCreatedate(@, tm),
                !.createby = TransferStr(@, tm, "createby", TXT_SML + 1),
                !.createcode = TransferStr(@, tm, "createcode", TXT_MED + 1),
                !.createinet = TransferStr(@, tm, "createinet", TXT_MED + 1)]

HISTORYDATETRANSFER(row, tm) == SIMPLEDATETRANSFER(row, tm)

(***************************************************************************)
(* idcontrol                                                               *)
(***************************************************************************)
\* the select of nextid(): the lastid it reads, none when the statement
\* fails or the idname has no row
nextid_select(idc, idname, selok) ==
    IF selok /\ idname \in DOMAIN idc
    THEN [ok |-> TRUE, lastid |-> idc[idname]]
    ELSE [ok |-> FALSE, lastid |-> 0]

\* the update of nextid(): the id it returns and the idcontrol table
nextid_update(idc, idname, lastid, updok) ==
    IF updok
    THEN [id |-> lastid, idc |-> IF idname \in DOMAIN idc THEN [idc EXCEPT ![idname] = lastid] ELSE idc]
    ELSE [id |-> 0, idc |-> idc]

\* nextid() run without interruption; selok and updok are the outcomes of
\* its two statements
nextid(idc, idname, increment, selok, updok) ==
    LET sel == nextid_select(idc, idname, selok)
        upd == nextid_update(idc, idname, sel.lastid + increment, updok)
    IN  IF ~sel.ok
        THEN [id |-> 0, idc |-> idc, stmts |-> <<Stmt("select idcontrol " \o idname, selok)>>]
        ELSE [id |-> upd.id, idc |-> upd.idc,
              stmts |-> <<Stmt("select idcontrol " \o idname, TRUE),
                          Stmt("update idcontrol " \o idname, updok)>>]

(***************************************************************************)
(* The listener: what every request does besides its handler               *)
(***************************************************************************)
\* the request can be served: the process runs and the bounds allow it; F is
\* the set of the statements of the handler that the environment fails
CanServe(F) ==
    /\ running
    /\ nreq < MaxReq
    /\ faults + Cardinality(F) <= MaxFaults

\* the time setnow() gives the request: a minute after the last one
Now == [now EXCEPT !.sod = @ + 60]

\* PQconnectdb() and PQfinish(): the sessions open after the call
PQconnectdb(open) == open + 1
PQfinish_none(open) == open
PQfinish(open) == open - 1

\* the handler returned rep, leaving open DB sessions open
Returned(cmd, tm, rep, st, F, open) ==
    /\ now' = Now
    /\ req' = [cmd |-> cmd, tm |-> tm]
    /\ reply' = rep
    /\ stmts' = st
    /\ conns' = open
    /\ nreq' = nreq + 1
    /\ faults' = faults + Cardinality(F)
    /\ running' = running
    /\ proc' = proc

\* the handler returned rep after a dbconnect() it did not finish
Served_connected(cmd, tm, rep, st, F) == Returned(cmd, tm, rep, st, F, PQconnectdb(conns))

\* the handler returned rep without a call of dbconnect(), or on the
\* session of its caller
Served(cmd, tm, rep, st, F) == Returned(cmd, tm, rep, st, F, conns)

\* the handler returned rep after dbconnect(), its calls on that session
\* and PQfinish()
Finished(cmd, tm, rep, st, F) ==
    Returned(cmd, tm, rep, st, F, PQfinish(PQconnectdb(conns)))

\* the handler called quithere(): the process exits, nothing is sent and
\* no session outlives the process
Quit(cmd, tm, st, F) ==
    /\ now' = Now
    /\ req' = [cmd |-> cmd, tm |-> tm]
    /\ reply' = ""
    /\ stmts' = st
    /\ conns' = 0
    /\ nreq' = nreq + 1
    /\ faults' = faults + Cardinality(F)
    /\ running' = FALSE
    /\ proc' = proc

\* dbconnect(): statement 0 of a handler is its connection
dbconnect(F) == 0 \notin F

(***************************************************************************)
(* users                                                                   *)
(***************************************************************************)
find_users(root, username) ==
    LET look == [username |-> StrNCpy(username, TXT_BIG + 1), expirydate |-> default_expiry]
    IN  find_in_ktree(root, look, "cmp_users")

\* the digest users_add() stores: HASH_BER over tohash[64], kept as the text hashed
secondaryuserid(username, emailaddress) ==
    "ber(" \o StrNCpy(username \o "&#" \o emailaddress, 64) \o ")"

\* an increment taken from one value more than the 334 of users_add()
users_increment_wide(rnd) == 666 + (rnd % 335)

\* the increment users_add() asks of nextid() when rand() returns rnd
users_increment(rnd) == 666 + (rnd % 334)

\* the row users_add() builds in the item
users_row(item, userid, username, emailaddress, passwordhash, tnow, by, code, inet) ==
    Merge([item |-> item,
           userid |-> userid,
           username |-> StrNCpy(username, TXT_BIG + 1),
           emailaddress |-> StrNCpy(emailaddress, TXT_BIG + 1),
           joineddate |-> tnow,
           passwordhash |-> StrNCpy(passwordhash, TXT_BIG + 1),
           secondaryuserid |-> secondaryuserid(username, emailaddress)],
          HISTORYDATEINIT(tnow, by, code, inet))

\* ok of users_add(), were the outcome of the insert not looked at
users_add_ok_any(id, ins) == id # 0

\* ok of users_add(): an id was allocated and the insert succeeded
users_add_ok(id, ins) == id # 0 /\ ins

\* the end of users_add(), were the item linked whatever ok is
users_add_link_any(ok, root, idroot, list, item, row) ==
    [root |-> add_to_ktree(root, row), idroot |-> add_to_ktree(idroot, row), list |-> list]

\* the end of users_add(): the item, taken from list before, is linked when
\* ok, else put back
users_add_link(ok, root, idroot, list, item, row) ==
    IF ~ok
    THEN [root |-> root, idroot |-> idroot, list |-> k_add_head(list, item)]
    ELSE [root |-> add_to_ktree(root, row), idroot |-> add_to_ktree(idroot, row),
          list |-> list]

\* users_add(): statements 1 and 2 are those of nextid(), 3 is the insert; nid
\* is what nextid() returned and row the row built in the item
users_add(username, emailaddress, passwordhash, rnd, tnow, by, code, inet, F) ==
    LET Row(nid, row) ==
            LET ins == DbAccepts(db_users, DbRow(row), users_keys, 3 \notin F)
                ok == users_add_ok(nid.id, ins)
                link == users_add_link(ok, users_root, userid_root,
                                       k_unlink_head(users_list), row.item, row)
            IN  [ok |-> ok,
                 idc |-> nid.idc,
                 db |-> IF ok THEN db_users \cup {DbRow(row)} ELSE db_users,
                 root |-> link.root, idroot |-> link.idroot, list |-> link.list,
                 stmts |-> IF nid.id = 0 THEN nid.stmts
                           ELSE Append(nid.stmts, Stmt("insert users", ins)),
                 used |-> {0} \cup (1..Len(nid.stmts)) \cup (IF nid.id = 0 THEN {} ELSE {3})]
        Nid(nid) == Row(nid, users_row(Head(users_list), nid.id, username, emailaddress,
                                       passwordhash, tnow, by, code, inet))
    IN  Nid(nextid(db_idcontrol, "userid", users_increment(rnd), 1 \notin F, 2 \notin F))

RECURSIVE Repeat(_, _)
Repeat(c, n) ==
    LET Twice(half) == half \o half
    IN  IF n = 0 THEN ""
        ELSE IF n % 2 = 0 THEN Twice(Repeat(c, n \div 2))
        ELSE c \o Repeat(c, n - 1)

\* the values rand() returns in the model
RandValues == {333, 334}

AdduserTransfers ==
    {[username |-> u, emailaddress |-> "alice@example.com", passwordhash |-> h] :
        u \in {"alice", "bob"}, h \in {Repeat("a", 64)}}
    \cup {[username |-> "al", emailaddress |-> "alice@example.com", passwordhash |-> Repeat("a", 64)]}

\* the require_name() calls of cmd_adduser()
adduser_fail(tm) ==
    FirstFailure(RequireNames(tm, <<<<"username", 3, userpatt>>,
                                    <<"emailaddress", 7, mailpatt>>,
                                    <<"passwordhash", 64, hashpatt>>>>))

\* cmd_adduser(): fail is the reply of its require_name() calls and add what
\* users_add() returned
cmd_adduser(tm, rnd, F) ==
    LET Added(add) ==
            /\ F \subseteq add.used
            /\ db_idcontrol' = add.idc
            /\ db_users' = add.db
            /\ users_root' = add.root
            /\ userid_root' = add.idroot
            /\ users_list' = add.list
            /\ Finished("adduser", tm,
                      IF add.ok THEN "added." \o tm["username"] ELSE "failed.DBE",
                      add.stmts, F)
            /\ UNCHANGED <<db_workers, db_workinfo, db_auths, db_poolstats, workersvars,
                           workinfovars, sharesvars, authsvars, poolstatsvars>>
        Checked(fail) ==
            IF fail # ""
            THEN /\ F = {}
                 /\ Served("adduser", tm, fail, <<>>, F)
                 /\ UNCHANGED <<dbvars, memvars>>
            ELSE IF ~dbconnect(F)
            THEN /\ F = {0}
                 /\ Quit("adduser", tm, <<>>, F)
                 /\ UNCHANGED <<dbvars, memvars>>
            ELSE Added(users_add(tm["username"], tm["emailaddress"], tm["passwordhash"], rnd,
                                 Now, ListenerBy, ListenerCode, ListenerInet, F))
    IN  Checked(adduser_fail(tm))

CmdAdduser ==
    \E tm \in AdduserTransfers, rnd \in RandValues, F \in SUBSET (0..3) :
        CanServe(F) /\ cmd_adduser(tm, rnd, F) /\ UNCHANGED <<paymentsvars, sockd, transfer_root>>

ChkpassTransfers ==
    {[username |-> u, passwordhash |-> h] :
        u \in {"alice"}, h \in {Repeat("a", 64), Repeat("A", 64), Repeat("b", 64)}}
    \cup {[username |-> "carol", passwordhash |-> Repeat("a", 64)],
          [username |-> "alice", passwordhash |-> Repeat("a", 63)]}

\* the comparison of cmd_chkpass(), were it strcmp()
chkpass_ok_exact(u_item, passwordhash) ==
    IF u_item = NULL THEN FALSE ELSE StrCmp(passwordhash, u_item.passwordhash) = 0

\* the comparison of cmd_chkpass()
chkpass_ok(u_item, passwordhash) ==
    IF u_item = NULL THEN FALSE ELSE StrCaseEq(passwordhash, u_item.passwordhash)

\* the require_name() calls of cmd_chkpass()
chkpass_fail(tm) ==
    FirstFailure(RequireNames(tm, <<<<"username", 3, userpatt>>,
                                    <<"passwordhash", 64, hashpatt>>>>))

cmd_chkpass(tm) ==
    LET fail == chkpass_fail(tm)
        u_item == find_users(users_root, tm["username"])
    IN  /\ Served("chkpass", tm,
                  IF fail # "" THEN fail
                  ELSE IF chkpass_ok(u_item, tm["passwordhash"]) THEN "ok" ELSE "bad",
                  <<>>, {})
        /\ UNCHANGED <<dbvars, memvars>>

CmdChkpass ==
    \E tm \in ChkpassTransfers :
        CanServe({}) /\ cmd_chkpass(tm) /\ UNCHANGED <<paymentsvars, sockd, transfer_root>>

(***************************************************************************)
(* workers                                                                 *)
(***************************************************************************)
find_workers(root, userid, workername) ==
    LET look == [userid |-> userid, workername |-> StrNCpy(workername, TXT_BIG + 1),
                 expirydate |-> default_expiry]
    IN  find_in_ktree(root, look, "cmp_workers")

\* the three settings workers_add() derives from its text arguments; stale is
\* the idlenotificationtime the item held when it was taken from the list
workers_settings(difficultydefault, idlenotificationenabled, idlenotificationtime, stale) ==
    LET Diffdef(d) ==
            IF difficultydefault = "" THEN DIFFICULTYDEFAULT_MIN
            ELSE IF d < DIFFICULTYDEFAULT_MIN THEN DIFFICULTYDEFAULT_MIN
            ELSE IF d > DIFFICULTYDEFAULT_MAX THEN DIFFICULTYDEFAULT_MAX
            ELSE d
        Enabled(t) ==
            IF idlenotificationtime # "" /\ t < DIFFICULTYDEFAULT_MIN THEN " "
            ELSE IF idlenotificationenabled = "" THEN " "
            ELSE IF LowerOrd(Ch(idlenotificationenabled, 1)) = Ord("y") THEN "y"
            ELSE " "
        Nottime(t) ==
            IF idlenotificationtime = "" THEN IDLENOTIFICATIONTIME_MIN
            ELSE IF t < DIFFICULTYDEFAULT_MIN THEN DIFFICULTYDEFAULT_MIN
            ELSE IF t > IDLENOTIFICATIONTIME_MAX THEN stale
            ELSE t
    IN  [difficultydefault |-> Diffdef(Atoll(difficultydefault)),
         idlenotificationenabled |-> Enabled(Atoll(idlenotificationtime)),
         idlenotificationtime |-> Nottime(Atoll(idlenotificationtime))]

workers_row(item, workerid, userid, workername, settings, tnow, by, code, inet) ==
    Merge(Merge([item |-> item, workerid |-> workerid, userid |-> userid,
                 workername |-> StrNCpy(workername, TXT_BIG + 1)],
                settings),
          HISTORYDATEINIT(tnow, by, code, inet))

\* the end of workers_add(), were the item linked whatever ret is
workers_add_link_any(ok, root, list, item, row) ==
    [root |-> add_to_ktree(root, row), list |-> list]

\* the end of workers_add(): the item, taken from list before, is linked
\* when ret is set, else put back
workers_add_link(ok, root, list, item, row) ==
    IF ~ok
    THEN [root |-> root, list |-> k_add_head(list, item)]
    ELSE [root |-> add_to_ktree(root, row), list |-> list]

\* workers_add(): statements b+1 and b+2 are those of nextid(), b+3 is the
\* insert; nid is what nextid() returned and row the row built in the item
workers_add(idc, userid, workername, difficultydefault, idlenotificationenabled, idlenotificationtime, stale, tnow, by, code, inet, F, b) ==
    LET Row(nid, row) ==
            LET ins == DbAccepts(db_workers, DbRow(row), workers_keys, (b + 3) \notin F)
                ok == nid.id # 0 /\ ins
                link == workers_add_link(ok, workers_root, k_unlink_head(workers_list),
                                         row.item, row)
            IN  [item |-> IF ok THEN row ELSE NULL,
                 idc |-> nid.idc,
                 db |-> IF ok THEN db_workers \cup {DbRow(row)} ELSE db_workers,
                 root |-> link.root, list |-> link.list,
                 stmts |-> IF nid.id = 0 THEN nid.stmts
                           ELSE Append(nid.stmts, Stmt("insert workers", ins)),
                 used |-> ((b + 1)..(b + Len(nid.stmts)))
                          \cup (IF nid.id = 0 THEN {} ELSE {b + 3})]
        Nid(nid) ==
            Row(nid, workers_row(Head(workers_list), nid.id, userid, workername,
                                 workers_settings(difficultydefault, idlenotificationenabled,
                                                  idlenotificationtime, stale),
                                 tnow, by, code, inet))
    IN  Nid(nextid(idc, "workerid", 1, (b + 1) \notin F, (b + 2) \notin F))

\* new_worker() with update = false, the only call of the program
new_worker(idc, userid, workername, diffdef, idlenotificationenabled, idlenotificationtime, stale, tnow, by, code, inet, F, b) ==
    LET Found(item) ==
            IF item # NULL
            THEN [item |-> item, idc |-> idc, db |-> db_workers, root |-> workers_root,
                  list |-> workers_list, stmts |-> <<>>, used |-> {}]
            ELSE workers_add(idc, userid, workername, diffdef, idlenotificationenabled,
                             idlenotificationtime, stale, tnow, by, code, inet, F, b)
    IN  Found(find_workers(workers_root, userid, workername))

\* the three settings workers_update() derives from its text arguments for
\* the row it is to change
workers_update_settings(row, difficultydefault, idlenotificationenabled, idlenotificationtime) ==
    LET Diffdef(d) ==
            IF difficultydefault = "" THEN row.difficultydefault
            ELSE IF d < DIFFICULTYDEFAULT_MIN \/ d > DIFFICULTYDEFAULT_MAX
            THEN row.difficultydefault
            ELSE d
        Nottime(t) ==
            IF idlenotificationtime = "" THEN row.idlenotificationtime
            ELSE IF t < IDLENOTIFICATIONTIME_MIN \/ t > IDLENOTIFICATIONTIME_MAX
            THEN row.idlenotificationtime
            ELSE t
    IN  [difficultydefault |-> Diffdef(Atoll(difficultydefault)),
         idlenotificationenabled |->
            IF idlenotificationenabled = "" THEN row.idlenotificationenabled
            ELSE IF LowerOrd(Ch(idlenotificationenabled, 1)) = Ord("y") THEN "y"
            ELSE " ",
         idlenotificationtime |-> Nottime(Atoll(idlenotificationtime))]

\* the row of memory once workers_update() has run HISTORYDATEINIT on it
workers_update_init(row, tnow, by, code, inet) ==
    Merge(row, HISTORYDATEINIT(tnow, by, code, inet))

\* workers_update() on the row of an item of workers_root: statement b + 1 is
\* Begin, b + 2 the update that expires the live row of the DB, b + 3 the
\* insert and b + 4 Commit, whose outcome is not looked at.  ub is set when
\* nothing changes and the loop at unparam reads par, which was never set
workers_update(row, difficultydefault, idlenotificationenabled, idlenotificationtime, tnow, by, code, inet, F, b) ==
    LET Ret(ok, db, mem, st, used, ub) ==
            [ok |-> ok, db |-> db, row |-> mem, stmts |-> st, used |-> used, ub |-> ub]
        Insert(new, expired, ins) ==
            IF ~ins
            THEN Ret(FALSE, db_workers, new,
                     <<Stmt("begin", TRUE), Stmt("update workers", TRUE),
                       Stmt("insert workers", FALSE), Stmt("rollback", TRUE)>>,
                     (b + 1)..(b + 3), FALSE)
            ELSE Ret(TRUE, IF (b + 4) \in F THEN db_workers ELSE expired \cup {DbRow(new)}, new,
                     <<Stmt("begin", TRUE), Stmt("update workers", TRUE),
                       Stmt("insert workers", TRUE), Stmt("commit", (b + 4) \notin F)>>,
                     (b + 1)..(b + 4), FALSE)
        Expire(new, expired) ==
            Insert(new, expired, DbAccepts(expired, DbRow(new), workers_keys, (b + 3) \notin F))
        Changed(init, new) ==
            IF (b + 1) \in F
            THEN Ret(FALSE, db_workers, init, <<Stmt("begin", FALSE)>>, {b + 1}, FALSE)
            ELSE IF (b + 2) \in F
            THEN Ret(FALSE, db_workers, init,
                     <<Stmt("begin", TRUE), Stmt("update workers", FALSE),
                       Stmt("rollback", TRUE)>>, {b + 1, b + 2}, FALSE)
            ELSE Expire(new, {IF r.workerid = row.workerid /\ r.expirydate = default_expiry
                              THEN [r EXCEPT !.expirydate = tnow] ELSE r : r \in db_workers})
        Set(init, set) ==
            IF /\ set.difficultydefault = row.difficultydefault
               /\ set.idlenotificationenabled = row.idlenotificationenabled
               /\ set.idlenotificationtime = row.idlenotificationtime
            THEN Ret(TRUE, db_workers, init, <<>>, {}, TRUE)
            ELSE Changed(init, Merge(init, set))
    IN  Set(workers_update_init(row, tnow, by, code, inet),
            workers_update_settings(row, difficultydefault, idlenotificationenabled,
                                    idlenotificationtime))

\* the settings new_worker() is given when it is called with update = true
UpdateValues ==
    {<<"", "", "">>, <<"5", "n", "99">>, <<"10", "", "10">>, <<"20", "", "">>,
     <<"", "Y", "30">>}

\* new_worker() with update = true for a worker find_workers() finds: it
\* calls workers_update().  req keeps the arguments and reply what
\* workers_update() returned; segv is set when the read of par makes free()
\* fault
WorkersUpdate ==
    \E w \in workers_root, v \in UpdateValues, F \in SUBSET (1..4), segv \in BOOLEAN :
        LET Args == [userid |-> w.userid, workername |-> w.workername,
                     difficultydefault |-> v[1], idlenotificationenabled |-> v[2],
                     idlenotificationtime |-> v[3]]
            Done(u) ==
                /\ F \subseteq u.used
                /\ segv => u.ub
                /\ workers_root' = (workers_root \ {w}) \cup {u.row}
                /\ db_workers' = u.db
                /\ IF segv THEN Quit("workers_update", Args, u.stmts, F)
                   ELSE Served("workers_update", Args, IF u.ok THEN "true" ELSE "false",
                               u.stmts, F)
        IN  /\ w = find_workers(workers_root, w.userid, w.workername)
            /\ CanServe(F)
            /\ Done(workers_update(w, v[1], v[2], v[3], Now, ListenerBy, ListenerCode,
                                   ListenerInet, F, 0))
            /\ UNCHANGED <<db_users, db_workinfo, db_auths, db_poolstats, db_idcontrol,
                           usersvars, workers_list, workinfovars, sharesvars, authsvars,
                           poolstatsvars, paymentsvars, sockd, transfer_root>>

(***************************************************************************)
(* workinfo                                                                *)
(***************************************************************************)
\* find_workinfo() sets the workinfoid of its look item and leaves the
\* expirydate as the stack holds it: stack is that value
find_workinfo(root, workinfoid, stack) ==
    LET look == [workinfoid |-> workinfoid, expirydate |-> stack]
    IN  find_in_ktree(root, look, "cmp_workinfo")

\* the values the look item's expirydate can hold in the model
StackValues == {default_expiry, TvOfSecs(0, 0)}

workinfo_row(item, tm, tnow, by, code, inet) ==
    HISTORYDATETRANSFER(
        Merge([item |-> item,
               workinfoid |-> Atoll(tm["workinfoid"]),
               poolinstance |-> StrNCpy(tm["poolinstance"], TXT_BIG + 1),
               transactiontree |-> tm["transactiontree"],
               merklehash |-> tm["merklehash"],
               prevhash |-> StrNCpy(tm["prevhash"], TXT_BIG + 1),
               coinbase1 |-> StrNCpy(tm["coinbase1"], TXT_BIG + 1),
               coinbase2 |-> StrNCpy(tm["coinbase2"], TXT_BIG + 1),
               version |-> StrNCpy(tm["version"], TXT_SML + 1),
               bits |-> StrNCpy(tm["bits"], TXT_SML + 1),
               ntime |-> StrNCpy(tm["ntime"], TXT_SML + 1),
               reward |-> Atoll(tm["reward"])],
              HISTORYDATEINIT(tnow, by, code, inet)),
        tm)

\* the workinfoid workinfo_add() returns: -1 unless the insert succeeded
workinfo_add_ret(ins, row) == IF ins THEN row.workinfoid ELSE -1

\* workinfo_add(): statement 1 is the insert
\* row is the row built in the item
workinfo_add(tm, tnow, by, code, inet, F) ==
    LET Row(row) ==
            LET ins == DbAccepts(db_workinfo, DbRow(row), workinfo_keys, 1 \notin F)
                workinfoid == workinfo_add_ret(ins, row)
            IN  [workinfoid |-> workinfoid,
                 db |-> IF ins THEN db_workinfo \cup {DbRow(row)} ELSE db_workinfo,
                 root |-> IF workinfoid = -1 THEN workinfo_root
                          ELSE add_to_ktree(workinfo_root, row),
                 list |-> IF workinfoid = -1
                          THEN k_add_head(k_unlink_head(workinfo_list), row.item)
                          ELSE k_unlink_head(workinfo_list),
                 stmts |-> <<Stmt("insert workinfo", ins)>>,
                 used |-> {0, 1}]
    IN  Row(workinfo_row(Head(workinfo_list), tm, tnow, by, code, inet))

(***************************************************************************)
(* shares and shareerrors                                                  *)
(***************************************************************************)
shares_row(item, userid, tm, tnow, by, code, inet) ==
    HISTORYDATETRANSFER(
        Merge([item |-> item,
               workinfoid |-> Atoll(tm["workinfoid"]),
               userid |-> userid,
               workername |-> StrNCpy(tm["workername"], TXT_BIG + 1),
               clientid |-> Atoll(tm["clientid"]),
               enonce1 |-> StrNCpy(tm["enonce1"], TXT_SML + 1),
               nonce2 |-> StrNCpy(tm["nonce2"], TXT_BIG + 1),
               nonce |-> StrNCpy(tm["nonce"], TXT_SML + 1),
               diff |-> tm["diff"],
               sdiff |-> tm["sdiff"],
               secondaryuserid |-> StrNCpy(tm["secondaryuserid"], TXT_SML + 1)],
              HISTORYDATEINIT(tnow, by, code, inet)),
        tm)

\* the lookups of shares_add(), were the worker not looked up
shares_resolve_noworker(username, workinfoid, workername, stack) ==
    /\ find_users(users_root, username) # NULL
    /\ find_workinfo(workinfo_root, Atoll(workinfoid), stack) # NULL

\* the three lookups of shares_add() and shareerrors_add()
shares_resolve(username, workinfoid, workername, stack) ==
    LET User(u_item) ==
            /\ u_item # NULL
            /\ find_workinfo(workinfo_root, Atoll(workinfoid), stack) # NULL
            /\ find_workers(workers_root, u_item.userid,
                            StrNCpy(workername, TXT_BIG + 1)) # NULL
    IN  User(find_users(users_root, username))

\* ok is TRUE when the three lookups found their items
shares_add(tm, stack, tnow, by, code, inet) ==
    LET Resolved(ok) ==
            [ok |-> ok,
             root |-> IF ok
                      THEN add_to_ktree(shares_root,
                                        shares_row(Head(shares_list),
                                                   find_users(users_root, tm["username"]).userid,
                                                   tm, tnow, by, code, inet))
                      ELSE shares_root,
             list |-> IF ok THEN k_unlink_head(shares_list)
                      ELSE k_add_head(k_unlink_head(shares_list), Head(shares_list))]
    IN  Resolved(shares_resolve(tm["username"], tm["workinfoid"], tm["workername"], stack))

shareerrors_row(item, userid, tm, tnow, by, code, inet) ==
    HISTORYDATETRANSFER(
        Merge([item |-> item,
               workinfoid |-> Atoll(tm["workinfoid"]),
               userid |-> userid,
               workername |-> StrNCpy(tm["workername"], TXT_BIG + 1),
               clientid |-> Atoll(tm["clientid"]),
               errn |-> Atoll(tm["errno"]),
               error |-> StrNCpy(tm["error"], TXT_SML + 1),
               secondaryuserid |-> StrNCpy(tm["secondaryuserid"], TXT_SML + 1)],
              HISTORYDATEINIT(tnow, by, code, inet)),
        tm)

shareerrors_add(tm, stack, tnow, by, code, inet) ==
    LET Resolved(ok) ==
            [ok |-> ok,
             root |-> IF ok
                      THEN add_to_ktree(shareerrors_root,
                                        shareerrors_row(Head(shareerrors_list),
                                                        find_users(users_root,
                                                                   tm["username"]).userid,
                                                        tm, tnow, by, code, inet))
                      ELSE shareerrors_root,
             list |-> IF ok THEN k_unlink_head(shareerrors_list)
                      ELSE k_add_head(k_unlink_head(shareerrors_list), Head(shareerrors_list))]
    IN  Resolved(shares_resolve(tm["username"], tm["workinfoid"], tm["workername"], stack))

(***************************************************************************)
(* auths                                                                   *)
(***************************************************************************)
auths_row(item, authid, userid, tm, tnow, by, code, inet) ==
    HISTORYDATETRANSFER(
        Merge([item |-> item,
               authid |-> authid,
               userid |-> userid,
               workername |-> StrNCpy(tm["workername"], TXT_BIG + 1),
               clientid |-> Atoll(tm["clientid"]),
               enonce1 |-> StrNCpy(tm["enonce1"], TXT_SML + 1),
               useragent |-> StrNCpy(tm["useragent"], TXT_BIG + 1)],
              HISTORYDATEINIT(tnow, by, code, inet)),
        tm)

\* auths_add(): statements 1 to 3 are those of workers_add(), 4 and 5 those
\* of nextid("authid") and 6 is the insert; secuserid is "" for NULL.  The
\* item new_worker() returns is not looked at.
auths_add(tm, stale, tnow, by, code, inet, F) ==
    LET Row(u_item, nw, nid, row) ==
            LET ins == DbAccepts(db_auths, DbRow(row), auths_keys, 6 \notin F)
                ok == nid.id # 0 /\ ins
            IN  [secuserid |-> IF ok THEN u_item.secondaryuserid ELSE "",
                 idc |-> nid.idc, dbw |-> nw.db,
                 dba |-> IF ok THEN db_auths \cup {DbRow(row)} ELSE db_auths,
                 wroot |-> nw.root, wlist |-> nw.list,
                 aroot |-> IF ok THEN add_to_ktree(auths_root, row) ELSE auths_root,
                 alist |-> IF ok THEN k_unlink_head(auths_list)
                           ELSE k_add_head(k_unlink_head(auths_list), row.item),
                 stmts |-> nw.stmts \o nid.stmts
                           \o (IF nid.id = 0 THEN <<>> ELSE <<Stmt("insert auths", ins)>>),
                 used |-> {0} \cup nw.used \cup (4..(3 + Len(nid.stmts)))
                          \cup (IF nid.id = 0 THEN {} ELSE {6})]
        \* nid is what nextid("authid") returned
        Nid(u_item, nw, nid) ==
            Row(u_item, nw, nid,
                auths_row(Head(auths_list), nid.id, u_item.userid, tm, tnow, by, code, inet))
        \* nw is what new_worker() did
        Worker(u_item, nw) == Nid(u_item, nw, nextid(nw.idc, "authid", 1, 4 \notin F, 5 \notin F))
        \* u_item is what find_users() returned
        User(u_item) ==
            IF u_item = NULL
            THEN [secuserid |-> "", idc |-> db_idcontrol, dbw |-> db_workers,
                  dba |-> db_auths, wroot |-> workers_root, wlist |-> workers_list,
                  aroot |-> auths_root,
                  alist |-> k_add_head(k_unlink_head(auths_list), Head(auths_list)),
                  stmts |-> <<>>, used |-> {0}]
            ELSE Worker(u_item,
                        new_worker(db_idcontrol, u_item.userid, tm["workername"], "10", " ",
                                   "10", stale, tnow, by, code, inet, F, 0))
    IN  User(find_users(users_root, tm["username"]))

(***************************************************************************)
(* Handlers of the pool's commands                                         *)
(***************************************************************************)
\* what an item of workers held in idlenotificationtime before it was taken
StaleValues == {0}

WorkinfoFields ==
    [method |-> "workinfo", poolinstance |-> "main", transactiontree |-> "t",
     merklehash |-> "m", prevhash |-> "p", coinbase1 |-> "c1", coinbase2 |-> "c2",
     version |-> "2", bits |-> "b", ntime |-> "n", reward |-> "25"]

SharesFields ==
    [clientid |-> "42", enonce1 |-> "deadbeef", nonce2 |-> "00", nonce |-> "1234",
     diff |-> "1.0", sdiff |-> "2.5", secondaryuserid |-> "s", errno |-> "2",
     error |-> "stale"]

SharelogTransfers ==
    {Merge(WorkinfoFields, [workinfoid |-> w]) : w \in {"9", "-1"}}
    \cup {[method |-> "workinfo", workinfoid |-> "9"], [workinfoid |-> "9"],
          [method |-> "block", workinfoid |-> "9"]}
    \cup {Merge(SharesFields, [method |-> m, workinfoid |-> w, username |-> "alice",
                               workername |-> "alice.rig1"]) :
            m \in {"shares", "shareerror"}, w \in {"9", "7"}}
    \cup {Merge(SharesFields, [method |-> "shares", workinfoid |-> "9", username |-> u,
                               workername |-> n]) :
            u \in {"alice", "carol"}, n \in {"alice.rig1", "alice.rig3"}}
    \cup {[method |-> "Shares", workinfoid |-> "9", username |-> "alice"],
          Merge(WorkinfoFields, [method |-> "WorkInfo", workinfoid |-> "9"]),
          Merge(SharesFields, [method |-> "SHARES", workinfoid |-> "9", username |-> "alice",
                               workername |-> "alice.rig1"]),
          Merge(SharesFields, [method |-> "ShareError", workinfoid |-> "9",
                               username |-> "alice", workername |-> "alice.rig1"]),
          Merge(SharesFields, [method |-> "shares", workinfoid |-> "9", username |-> "alice",
                               workername |-> "alice.rig1", createdate |-> "1401580000,0"])}

\* the require_name() calls of the three branches of cmd_sharelog()
sharelog_workinfo_fail(tm) ==
    FirstFailure(RequireNames(tm, <<<<"workinfoid", 1, nopatt>>,
                                    <<"poolinstance", 1, nopatt>>,
                                    <<"transactiontree", 1, nopatt>>,
                                    <<"merklehash", 1, nopatt>>,
                                    <<"prevhash", 1, nopatt>>,
                                    <<"coinbase1", 1, nopatt>>,
                                    <<"coinbase2", 1, nopatt>>,
                                    <<"version", 1, nopatt>>,
                                    <<"bits", 1, nopatt>>,
                                    <<"ntime", 1, nopatt>>,
                                    <<"reward", 1, nopatt>>>>))

sharelog_shares_fail(tm) ==
    FirstFailure(RequireNames(tm, <<<<"workinfoid", 1, nopatt>>,
                                    <<"username", 1, nopatt>>,
                                    <<"workername", 1, nopatt>>,
                                    <<"clientid", 1, nopatt>>,
                                    <<"enonce1", 1, nopatt>>,
                                    <<"nonce2", 1, nopatt>>,
                                    <<"nonce", 1, nopatt>>,
                                    <<"diff", 1, nopatt>>,
                                    <<"sdiff", 1, nopatt>>,
                                    <<"secondaryuserid", 1, nopatt>>>>))

sharelog_shareerrors_fail(tm) ==
    FirstFailure(RequireNames(tm, <<<<"workinfoid", 1, nopatt>>,
                                    <<"username", 1, nopatt>>,
                                    <<"workername", 1, nopatt>>,
                                    <<"clientid", 1, nopatt>>,
                                    <<"errno", 1, nopatt>>,
                                    <<"error", 1, nopatt>>,
                                    <<"secondaryuserid", 1, nopatt>>>>))

\* cmd_sharelog() with method workinfo
sharelog_workinfo(tm, F) ==
    LET Added(add) ==
            /\ F \subseteq add.used
            /\ db_workinfo' = add.db
            /\ workinfo_root' = add.root
            /\ workinfo_list' = add.list
            /\ Finished("sharelog", tm,
                      IF add.workinfoid = -1 THEN "bad.DBE"
                      ELSE "added." \o bigint_to_buf(add.workinfoid),
                      add.stmts, F)
            /\ UNCHANGED <<db_users, db_workers, db_auths, db_poolstats, db_idcontrol,
                           usersvars, workersvars, sharesvars, authsvars, poolstatsvars>>
        Checked(fail) ==
            IF fail # ""
            THEN /\ F = {}
                 /\ Served("sharelog", tm, fail, <<>>, F)
                 /\ UNCHANGED <<dbvars, memvars>>
            ELSE IF ~dbconnect(F)
            THEN /\ F = {0}
                 /\ Quit("sharelog", tm, <<>>, F)
                 /\ UNCHANGED <<dbvars, memvars>>
            ELSE Added(workinfo_add(tm, Now, ListenerBy, ListenerCode, ListenerInet, F))
    IN  Checked(sharelog_workinfo_fail(tm))

\* cmd_sharelog() with method shares
sharelog_shares(tm, stack) ==
    LET Added(add) ==
            /\ shares_root' = add.root
            /\ shares_list' = add.list
            /\ Served("sharelog", tm,
                      IF add.ok THEN "added." \o tm["nonce"] ELSE "bad.DATA", <<>>, {})
            /\ UNCHANGED <<dbvars, usersvars, workersvars, workinfovars, authsvars,
                           poolstatsvars, shareerrors_root, shareerrors_list>>
        Checked(fail) ==
            IF fail # ""
            THEN /\ stack = default_expiry
                 /\ Served("sharelog", tm, fail, <<>>, {})
                 /\ UNCHANGED <<dbvars, memvars>>
            ELSE Added(shares_add(tm, stack, Now, ListenerBy, ListenerCode, ListenerInet))
    IN  Checked(sharelog_shares_fail(tm))

\* cmd_sharelog() with method shareerror
sharelog_shareerrors(tm, stack) ==
    LET Added(add) ==
            /\ shareerrors_root' = add.root
            /\ shareerrors_list' = add.list
            /\ Served("sharelog", tm,
                      IF add.ok THEN "added." \o tm["username"] ELSE "bad.DATA", <<>>, {})
            /\ UNCHANGED <<dbvars, usersvars, workersvars, workinfovars, authsvars,
                           poolstatsvars, shares_root, shares_list>>
        Checked(fail) ==
            IF fail # ""
            THEN /\ stack = default_expiry
                 /\ Served("sharelog", tm, fail, <<>>, {})
                 /\ UNCHANGED <<dbvars, memvars>>
            ELSE Added(shareerrors_add(tm, stack, Now, ListenerBy, ListenerCode, ListenerInet))
    IN  Checked(sharelog_shareerrors_fail(tm))

\* cmd_sharelog(): fail is the reply of require_name("method")
cmd_sharelog(tm, stack, F) ==
    LET Method(fail) ==
            IF fail # ""
            THEN /\ F = {} /\ stack = default_expiry
                 /\ Served("sharelog", tm, fail, <<>>, F)
                 /\ UNCHANGED <<dbvars, memvars>>
            ELSE IF StrCaseEq(tm["method"], "workinfo")
            THEN stack = default_expiry /\ sharelog_workinfo(tm, F)
            ELSE IF StrCaseEq(tm["method"], "shares")
            THEN F = {} /\ sharelog_shares(tm, stack)
            ELSE IF StrCaseEq(tm["method"], "shareerror")
            THEN F = {} /\ sharelog_shareerrors(tm, stack)
            ELSE /\ F = {} /\ stack = default_expiry
                 /\ Served("sharelog", tm, "bad.method", <<>>, F)
                 /\ UNCHANGED <<dbvars, memvars>>
    IN  Method(require_name(tm, "method", 1, nopatt))

CmdSharelog ==
    \E tm \in SharelogTransfers, stack \in StackValues, F \in SUBSET (0..1) :
        /\ CanServe(F) /\ cmd_sharelog(tm, stack, F)
        /\ UNCHANGED <<paymentsvars, sockd, transfer_root>>

AuthTransfers ==
    {[method |-> "authorise", username |-> u, workername |-> n, clientid |-> "42",
      enonce1 |-> "deadbeef", useragent |-> "cgminer/4.0"] :
        u \in {"alice"}, n \in {"alice.rig1", "alice.rig2"}}
    \cup {[method |-> "authorise", username |-> "carol", workername |-> "carol.rig1",
           clientid |-> "42", enonce1 |-> "deadbeef", useragent |-> "cgminer/4.0"],
          [method |-> "authorize", username |-> "alice"],
          [method |-> "Authorise", username |-> "alice", workername |-> "alice.rig1",
           clientid |-> "42", enonce1 |-> "deadbeef", useragent |-> "cgminer/4.0"],
          [method |-> "authorise", username |-> "alice"]}

\* the require_name() calls of cmd_auth() that follow that of the method
auth_fail(tm) ==
    FirstFailure(RequireNames(tm, <<<<"username", 1, nopatt>>,
                                    <<"workername", 1, nopatt>>,
                                    <<"clientid", 1, nopatt>>,
                                    <<"enonce1", 1, nopatt>>,
                                    <<"useragent", 1, nopatt>>>>))

\* cmd_auth(): failm is the reply of require_name("method"), fail the reply
\* made before auths_add() is called and add what auths_add() returned
cmd_auth(tm, stale, F) ==
    LET Reply(failm) ==
            IF failm # "" THEN failm
            ELSE IF ~StrCaseEq(tm["method"], "authorise") THEN "bad.method"
            ELSE auth_fail(tm)
        Added(add) ==
            /\ F \subseteq add.used
            /\ db_idcontrol' = add.idc
            /\ db_workers' = add.dbw
            /\ db_auths' = add.dba
            /\ workers_root' = add.wroot
            /\ workers_list' = add.wlist
            /\ auths_root' = add.aroot
            /\ auths_list' = add.alist
            /\ Finished("authorise", tm,
                      IF add.secuserid = "" THEN "bad.DBE" ELSE "added." \o add.secuserid,
                      add.stmts, F)
            /\ UNCHANGED <<db_users, db_workinfo, db_poolstats, usersvars, workinfovars,
                           sharesvars, poolstatsvars>>
        Checked(fail) ==
            IF fail # ""
            THEN /\ F = {}
                 /\ Served("authorise", tm, fail, <<>>, F)
                 /\ UNCHANGED <<dbvars, memvars>>
            ELSE IF ~dbconnect(F)
            THEN /\ F = {0}
                 /\ Quit("authorise", tm, <<>>, F)
                 /\ UNCHANGED <<dbvars, memvars>>
            ELSE Added(auths_add(tm, stale, Now, ListenerBy, ListenerCode, ListenerInet, F))
    IN  Checked(Reply(require_name(tm, "method", 1, nopatt)))

CmdAuth ==
    \E tm \in AuthTransfers, stale \in StaleValues, F \in SUBSET (0..6) :
        CanServe(F) /\ cmd_auth(tm, stale, F) /\ UNCHANGED <<paymentsvars, sockd, transfer_root>>

(***************************************************************************)
(* poolstats                                                               *)
(***************************************************************************)
\* the row poolstats_add() builds; a hashrate is kept as its text
poolstats_row(item, tm, tnow, by, code, inet) ==
    SIMPLEDATETRANSFER(
        Merge([item |-> item,
               poolinstance |-> StrNCpy(tm["poolinstance"], TXT_BIG + 1),
               users |-> Atoll(tm["users"]),
               workers |-> Atoll(tm["workers"]),
               hashrate |-> tm["hashrate"],
               hashrate5m |-> tm["hashrate5m"],
               hashrate1hr |-> tm["hashrate1hr"],
               hashrate24hr |-> tm["hashrate24hr"]],
              SIMPLEDATEINIT(tnow, by, code, inet)),
        tm)

\* the parameters of the insert: bigint_to_buf() of each hashrate
poolstats_params(row) ==
    [DbRow(row) EXCEPT !.hashrate = Atoll(@), !.hashrate5m = Atoll(@),
                       !.hashrate1hr = Atoll(@), !.hashrate24hr = Atoll(@)]

\* poolstats_add(): statement 1 is the insert, issued when store is set; row
\* is the row built in the item and params the parameters of its insert
poolstats_add(store, tm, tnow, by, code, inet, F) ==
    LET Row(row, params) ==
            LET ins == store /\ DbAccepts(db_poolstats, params, poolstats_keys, 1 \notin F)
                ok == ~store \/ ins
            IN  [ok |-> ok,
                 db |-> IF ins THEN db_poolstats \cup {params} ELSE db_poolstats,
                 root |-> IF ok THEN add_to_ktree(poolstats_root, row) ELSE poolstats_root,
                 list |-> IF ok THEN k_unlink_head(poolstats_list)
                          ELSE k_add_head(k_unlink_head(poolstats_list), row.item),
                 stmts |-> IF store THEN <<Stmt("insert poolstats", ins)>> ELSE <<>>,
                 used |-> IF store THEN {0, 1} ELSE {0}]
        Item(row) == Row(row, poolstats_params(row))
    IN  Item(poolstats_row(Head(poolstats_list), tm, tnow, by, code, inet))

\* the look item of cmd_poolstats() and the item it finds before it
poolstats_look(tm) ==
    [poolinstance |-> StrNCpy(tm["poolinstance"], TXT_BIG + 1), createdate |-> date_eot]

poolstats_ps(root, tm) ==
    find_before_in_ktree(root, poolstats_look(tm), "cmp_poolstats")

\* store, as cmd_poolstats() sets it once createdate is converted
poolstats_store(ps, createdate, row) ==
    IF ps = NULL THEN TRUE ELSE TvDiffExceeds(createdate, row.createdate, STATS_PER)

PoolstatsFields ==
    [users |-> "3", workers |-> "5", hashrate |-> "100.5", hashrate5m |-> "90",
     hashrate1hr |-> "80", hashrate24hr |-> "70"]

PoolstatsTransfers ==
    {Merge(PoolstatsFields, [poolinstance |-> p]) : p \in {"main", "alt"}}
    \cup {Merge(PoolstatsFields, [poolinstance |-> p, createdate |-> c]) :
            p \in {"main", "alt"},
            c \in {"2014-06-01 00:02:00+00", "2014-06-01 00:20:00+00", "1401580920,0"}}
    \cup {[poolinstance |-> "main", users |-> "3"]}

\* the first seven require_name() calls of cmd_poolstats()
poolstats_fail(tm) ==
    FirstFailure(RequireNames(tm, <<<<"poolinstance", 1, nopatt>>,
                                    <<"users", 1, nopatt>>,
                                    <<"workers", 1, nopatt>>,
                                    <<"hashrate", 1, nopatt>>,
                                    <<"hashrate5m", 1, nopatt>>,
                                    <<"hashrate1hr", 1, nopatt>>,
                                    <<"hashrate24hr", 1, nopatt>>>>))

\* cmd_poolstats(): ps is the item find_before_in_ktree() returned, fail the
\* reply of the require_name() calls (that of createdate is made when ps is
\* an item), createdate what TXT_TO_TV gave (it is reached when ps is an
\* item) and add what poolstats_add() returned
cmd_poolstats(tm, F) ==
    LET Added(add) ==
            /\ F \subseteq add.used
            /\ db_poolstats' = add.db
            /\ poolstats_root' = add.root
            /\ poolstats_list' = add.list
            /\ Finished("poolstats", tm, IF add.ok THEN "added.ok" ELSE "bad.DBE",
                      add.stmts, F)
            /\ UNCHANGED <<db_users, db_workers, db_workinfo, db_auths, db_idcontrol,
                           usersvars, workersvars, workinfovars, sharesvars, authsvars>>
        Converted(ps, createdate) ==
            IF (ps # NULL /\ createdate.quit) \/ ~dbconnect(F)
            THEN /\ F = IF ps # NULL /\ createdate.quit THEN {} ELSE {0}
                 /\ Quit("poolstats", tm, <<>>, F)
                 /\ UNCHANGED <<dbvars, memvars>>
            ELSE Added(poolstats_add(poolstats_store(ps, createdate.tv, poolstats_look(tm)),
                                     tm, Now, ListenerBy, ListenerCode, ListenerInet, F))
        Createdate(ps, fail) ==
            IF fail # "" THEN fail
            ELSE IF ps = NULL THEN ""
            ELSE require_name(tm, "createdate", 1, nopatt)
        Checked(ps, fail) ==
            IF fail # ""
            THEN /\ F = {}
                 /\ Served("poolstats", tm, fail, <<>>, F)
                 /\ UNCHANGED <<dbvars, memvars>>
            ELSE Converted(ps, TxtToTv(tm["createdate"]))
        Found(ps) == Checked(ps, Createdate(ps, poolstats_fail(tm)))
    IN  Found(poolstats_ps(poolstats_root, tm))

CmdPoolstats ==
    \E tm \in PoolstatsTransfers, F \in SUBSET (0..1) :
        CanServe(F) /\ cmd_poolstats(tm, F) /\ UNCHANGED <<paymentsvars, sockd, transfer_root>>

(***************************************************************************)
(* payments                                                                *)
(***************************************************************************)
\* the byte 0x02 that separates the fields of a message and of the payments
\* reply; it cannot be written in a TLA+ string and the tab stands for it
FLDSEP == "\t"

\* what the look item of cmd_payments() holds in the fields the handler does
\* not set: the item comes off the free list as it was left
PaymentsStackValues ==
    {[payaddress |-> "", expirydate |-> TvOfSecs(0, 0)],
     [payaddress |-> "~", expirydate |-> default_expiry]}

\* the loop of cmd_payments() over the items from p_item on: buf is the
\* reply so far and rows the number of rows appended
RECURSIVE payments_rows(_, _, _, _)
payments_rows(items, userid, rows, buf) ==
    IF items = <<>> \/ Head(items).userid # userid
    THEN buf \o "rows=" \o bigint_to_buf(rows)
    ELSE payments_rows(Tail(items), userid, rows + 1,
                       buf \o "paydate" \o bigint_to_buf(rows) \o "="
                           \o tv_to_buf(Head(items).paydate) \o FLDSEP
                           \o "payaddress" \o bigint_to_buf(rows) \o "="
                           \o Head(items).payaddress \o FLDSEP
                           \o "amount" \o bigint_to_buf(rows) \o "="
                           \o bigint_to_buf(Head(items).amount) \o FLDSEP)

\* cmd_payments(): fail is the reply of require_name(), u_item the item
\* find_users() returned and look the item taken off payments_list
cmd_payments(tm, stack) ==
    LET Look(look, u_item) ==
            /\ payments_list' = k_add_head(k_unlink_head(payments_list), look.item)
            /\ Served("payments", tm,
                      payments_rows(find_after_in_ktree(payments_root, look, "cmp_payments"),
                                    u_item.userid, 0, "ok."),
                      <<>>, {})
        User(u_item) ==
            IF u_item = NULL
            THEN /\ stack = CHOOSE v \in PaymentsStackValues : TRUE
                 /\ payments_list' = payments_list
                 /\ Served("payments", tm, "bad", <<>>, {})
            ELSE Look(Merge(stack, [item |-> Head(payments_list), userid |-> u_item.userid,
                                    paydate |-> TvOfSecs(0, 0)]),
                      u_item)
        Checked(fail) ==
            IF fail # ""
            THEN /\ stack = CHOOSE v \in PaymentsStackValues : TRUE
                 /\ payments_list' = payments_list
                 /\ Served("payments", tm, fail, <<>>, {})
            ELSE User(find_users(users_root, tm["username"]))
    IN  /\ Checked(require_name(tm, "username", 3, userpatt))
        /\ UNCHANGED <<dbvars, memvars, payments_root, db_payments>>

(***************************************************************************)
(* idcontrol                                                               *)
(***************************************************************************)
\* cmd_newid(): statement 1 is the insert into idcontrol, whose key is the
\* idname; the look item goes back to idcontrol_list
cmd_newid(tm, F) ==
    LET Inserted(idname, ins) ==
            /\ F \subseteq {0, 1}
            /\ db_idcontrol' = IF ins THEN db_idcontrol @@ (idname :> Atoll(tm["idvalue"]))
                                ELSE db_idcontrol
            /\ Finished("newid", tm, IF ins THEN "added." \o tm["idname"] ELSE "failed.DBE",
                      <<Stmt("insert idcontrol", ins)>>, F)
        Row(idname) == Inserted(idname, 1 \notin F /\ idname \notin DOMAIN db_idcontrol)
        Checked(fail) ==
            IF fail # ""
            THEN /\ F = {}
                 /\ db_idcontrol' = db_idcontrol
                 /\ Served("newid", tm, fail, <<>>, F)
            ELSE IF ~dbconnect(F)
            THEN /\ F = {0}
                 /\ db_idcontrol' = db_idcontrol
                 /\ Quit("newid", tm, <<>>, F)
            ELSE Row(StrNCpy(tm["idname"], TXT_SML + 1))
    IN  /\ Checked(FirstFailure(RequireNames(tm, <<<<"idname", 3, idpatt>>,
                                                   <<"idvalue", 1, intpatt>>>>)))
        /\ UNCHANGED <<db_users, db_workers, db_workinfo, db_auths, db_poolstats, memvars,
                       paymentsvars>>

(***************************************************************************)
(* breakdown(): from the message to the command and the transfer map       *)
(***************************************************************************)
ID_SIZ == 31
NAME_SIZE == 63
VALUE_SIZE == 1023
JSON_TRANSFER == "json="

\* strchr(s, c): the position of the first c in s, 0 when there is none
strchr(s, c) ==
    LET First(found) ==
            IF found = {} THEN 0 ELSE CHOOSE i \in found : \A j \in found : i <= j
    IN  First({i \in 1..Len(s) : Ch(s, i) = c})

\* the text of s from position i on
StrFrom(s, i) == SubSeq(s, i, Len(s))

\* the command table, CMD_END left out: func is the handler
cmds ==
    <<[cmd_val |-> "CMD_SHUTDOWN", cmd_str |-> "shutdown", func |-> "NULL"],
      [cmd_val |-> "CMD_PING", cmd_str |-> "ping", func |-> "NULL"],
      [cmd_val |-> "CMD_LOGSHARE", cmd_str |-> "sharelog", func |-> "cmd_sharelog"],
      [cmd_val |-> "CMD_AUTH", cmd_str |-> "authorise", func |-> "cmd_auth"],
      [cmd_val |-> "CMD_ADDUSER", cmd_str |-> "adduser", func |-> "cmd_adduser"],
      [cmd_val |-> "CMD_CHKPASS", cmd_str |-> "chkpass", func |-> "cmd_chkpass"],
      [cmd_val |-> "CMD_POOLSTAT", cmd_str |-> "poolstats", func |-> "cmd_poolstats"],
      [cmd_val |-> "CMD_NEWID", cmd_str |-> "newid", func |-> "cmd_newid"],
      [cmd_val |-> "CMD_PAYMENTS", cmd_str |-> "payments", func |-> "cmd_payments"]>>

\* a loop over cmds that compares the case as well
which_cmds_exact(cmd) ==
    LET First(found) ==
            IF found = {} THEN Len(cmds) + 1
            ELSE CHOOSE i \in found : \A j \in found : i <= j
    IN  First({i \in 1..Len(cmds) : cmd = cmds[i].cmd_str})

\* the loop of breakdown() over cmds: the index of the first entry whose
\* cmd_str is cmd ignoring case, that of CMD_END when there is none
which_cmds(cmd) ==
    LET First(found) ==
            IF found = {} THEN Len(cmds) + 1
            ELSE CHOOSE i \in found : \A j \in found : i <= j
    IN  First({i \in 1..Len(cmds) : StrCaseEq(cmd, cmds[i].cmd_str)})

\* The JSON texts the model decodes: one object, with no white space, whose
\* values are strings without escapes, integers, reals written as digits
\* with a fraction, true, false, null, and arrays of those.
\* the character of s at position i, "" past its end
StrAt(s, i) == IF i >= 1 /\ i <= Len(s) THEN Ch(s, i) ELSE ""

\* the position after the digits of s that start at i
RECURSIVE json_digits(_, _)
json_digits(s, i) == IF StrAt(s, i) # "" /\ IsDigit(StrAt(s, i)) THEN json_digits(s, i + 1) ELSE i

\* a string, a number or a literal at position i of s
json_scalar(s, i) ==
    LET Bad == [ok |-> FALSE, typ |-> "", val |-> "", next |-> i]
        Str(q) ==
            IF q = 0 THEN Bad
            ELSE [ok |-> TRUE, typ |-> "string", val |-> SubSeq(s, i + 1, i + q - 1),
                  next |-> i + q + 1]
        Frac(j, k) ==
            IF k = j + 1 THEN Bad
            ELSE [ok |-> TRUE, typ |-> "real", val |-> SubSeq(s, i, k - 1), next |-> k]
        Whole(d, j) ==
            IF j = d THEN Bad
            ELSE IF StrAt(s, j) = "." THEN Frac(j, json_digits(s, j + 1))
            ELSE [ok |-> TRUE, typ |-> "integer", val |-> SubSeq(s, i, j - 1), next |-> j]
        Num(d) == Whole(d, json_digits(s, d))
        Lit(t) ==
            IF t = {} THEN Bad
            ELSE [ok |-> TRUE, typ |-> "other", val |-> "",
                  next |-> i + Len(CHOOSE w \in t : TRUE)]
    IN  IF StrAt(s, i) = "\"" THEN Str(strchr(StrFrom(s, i + 1), "\""))
        ELSE IF StrAt(s, i) = "-" THEN Num(i + 1)
        ELSE IF StrAt(s, i) # "" /\ IsDigit(StrAt(s, i)) THEN Num(i)
        ELSE Lit({w \in {"true", "false", "null"} : HasPrefix(StrFrom(s, i), w)})

\* the elements of an array from position i of s on; acc holds those read
RECURSIVE json_array(_, _, _)
json_array(s, i, acc) ==
    LET Elem(e) ==
            IF ~e.ok THEN [ok |-> FALSE, typ |-> "", val |-> <<>>, next |-> i]
            ELSE IF StrAt(s, e.next) = ","
            THEN json_array(s, e.next + 1, Append(acc, [typ |-> e.typ, val |-> e.val]))
            ELSE IF StrAt(s, e.next) = "]"
            THEN [ok |-> TRUE, typ |-> "array",
                  val |-> Append(acc, [typ |-> e.typ, val |-> e.val]), next |-> e.next + 1]
            ELSE [ok |-> FALSE, typ |-> "", val |-> <<>>, next |-> i]
    IN  Elem(json_scalar(s, i))

\* the value at position i of s
json_value(s, i) ==
    IF StrAt(s, i) # "["  THEN json_scalar(s, i)
    ELSE IF StrAt(s, i + 1) = "]"
    THEN [ok |-> TRUE, typ |-> "array", val |-> <<>>, next |-> i + 2]
    ELSE json_array(s, i + 1, <<>>)

\* the members of an object from position i of s on; acc holds those read
RECURSIVE json_members(_, _, _)
json_members(s, i, acc) ==
    LET Bad == [ok |-> FALSE, members |-> <<>>]
        Value(k, v) ==
            IF ~v.ok THEN Bad
            ELSE IF StrAt(s, v.next) = ","
            THEN json_members(s, v.next + 1,
                              Append(acc, [key |-> k.val, typ |-> v.typ, val |-> v.val]))
            ELSE IF StrAt(s, v.next) = "}"
            THEN [ok |-> TRUE,
                  members |-> Append(acc, [key |-> k.val, typ |-> v.typ, val |-> v.val])]
            ELSE Bad
        Key(k) ==
            IF ~k.ok \/ k.typ # "string" \/ StrAt(s, k.next) # ":" THEN Bad
            ELSE Value(k, json_value(s, k.next + 1))
    IN  Key(json_scalar(s, i))

\* json_loads(s, JSON_DISABLE_EOF_CHECK) and the json_object_iter() calls:
\* the members of the object that s starts with, in the order of the text
json_loads(s) ==
    IF StrAt(s, 1) # "{" THEN [ok |-> FALSE, members |-> <<>>]
    ELSE IF StrAt(s, 2) = "}" THEN [ok |-> TRUE, members |-> <<>>]
    ELSE json_members(s, 2, <<>>)

\* an item that replaces the one transfer_root holds for its name
transfer_add_last(root, name, value) == (name :> value) @@ root

\* an item is added to transfer_root unless find_in_ktree() finds its name
transfer_add(root, name, value) ==
    IF name \in DOMAIN root THEN root ELSE root @@ (name :> value)

\* the loop of breakdown() over the fields of the data that FLDSEP separates:
\* next is the text left and root the transfer map so far
RECURSIVE transfer_fields(_, _)
transfer_fields(next, root) ==
    LET Eq(data, eq) ==
            IF eq = 0
            THEN transfer_add(root, StrNCpy(data, NAME_SIZE + 1), "")
            ELSE transfer_add(root, StrNCpy(SubSeq(data, 1, eq - 1), NAME_SIZE + 1),
                              StrNCpy(StrFrom(data, eq + 1), VALUE_SIZE + 1))
        Field(data, rest) == transfer_fields(rest, Eq(data, strchr(data, "=")))
        Sep(sep) ==
            IF sep = 0 THEN Field(next, "")
            ELSE Field(SubSeq(next, 1, sep - 1), StrFrom(next, sep + 1))
    IN  IF next = "" THEN root ELSE Sep(strchr(next, FLDSEP))

\* snprintf("%f") of the real the text val holds: six decimals
json_real(val) ==
    LET Parts(dot) ==
            SubSeq(val, 1, dot) \o StrNCpy(StrFrom(val, dot + 1), 7)
            \o Repeat("0", 6 - Len(StrNCpy(StrFrom(val, dot + 1), 7)))
    IN  Parts(strchr(val, "."))

\* the strings of an array appended to data with a space between them
RECURSIVE json_strings(_, _, _)
json_strings(elems, first, data) ==
    IF elems = <<>> THEN data
    ELSE IF Head(elems).typ # "string" THEN json_strings(Tail(elems), first, data)
    ELSE json_strings(Tail(elems), FALSE,
                      IF first THEN data \o Head(elems).val
                      ELSE data \o " " \o Head(elems).val)

\* the data of the item of a member: the string, the integer as "%PRId64",
\* the real as "%f" or the strings of the array
json_data(m) ==
    IF m.typ = "string" THEN m.val
    ELSE IF m.typ = "integer" THEN bigint_to_buf(Atoll(m.val))
    ELSE IF m.typ = "real" THEN json_real(m.val)
    ELSE json_strings(m.val, TRUE, "")

\* the loop of breakdown() over the members of the JSON object: ub is set
\* when an array holds no string, its data being left as malloc() gave it
RECURSIVE transfer_json(_, _, _)
transfer_json(members, root, ub) ==
    LET Item(m, rest) ==
            IF m.typ \in {"string", "integer", "real"}
            THEN transfer_json(rest, transfer_add(root, StrNCpy(m.key, NAME_SIZE + 1),
                                                  json_data(m)), ub)
            ELSE IF m.typ = "array"
            THEN transfer_json(rest, transfer_add(root, StrNCpy(m.key, NAME_SIZE + 1),
                                                  json_data(m)),
                               ub \/ \A i \in 1..Len(m.val) : m.val[i].typ # "string")
            ELSE transfer_json(rest, root, ub)
    IN  IF members = <<>> THEN [tm |-> root, ub |-> ub]
        ELSE Item(Head(members), Tail(members))

\* breakdown(): the value it returns (cmd), which_cmds, the id and the
\* transfer map it leaves.  ub is set when its behaviour is undefined: the
\* message has no data and strncmp() reads from a null pointer, or it reads
\* data that was never written.  dot is the position of the first '.' of buf
\* and data that of the first '.' after it, 0 when there is none
breakdown(buf) ==
    LET Done(cmd, which, id, tm, ub) ==
            [cmd |-> cmd, which_cmds |-> which, id |-> id, tm |-> tm, ub |-> ub]
        Json(which, id, json_obj) ==
            IF ~json_obj.ok THEN Done("CMD_REPLY", which, id, <<>>, FALSE)
            ELSE Done(cmds[which].cmd_val, which, id,
                      transfer_json(json_obj.members, <<>>, FALSE).tm,
                      transfer_json(json_obj.members, <<>>, FALSE).ub)
        Data(which, id, next, null) ==
            IF which > Len(cmds) THEN Done("CMD_REPLY", which, id, <<>>, FALSE)
            ELSE IF null THEN Done(cmds[which].cmd_val, which, id, <<>>, TRUE)
            ELSE IF HasPrefix(next, JSON_TRANSFER)
            THEN Json(which, id, json_loads(StrFrom(next, Len(JSON_TRANSFER) + 1)))
            ELSE Done(cmds[which].cmd_val, which, id, transfer_fields(next, <<>>), FALSE)
        Cmd(id, cmd, data) ==
            IF data = 0 THEN Data(which_cmds(cmd), id, "", TRUE)
            ELSE Data(which_cmds(SubSeq(cmd, 1, data - 1)), id, StrFrom(cmd, data + 1), FALSE)
        Id(id, cmd) == Cmd(id, cmd, strchr(cmd, "."))
        Dot(dot) ==
            IF dot = 0 THEN Done("CMD_REPLY", 0, StrNCpy(buf, ID_SIZ), <<>>, FALSE)
            ELSE Id(StrNCpy(SubSeq(buf, 1, dot - 1), ID_SIZ), StrFrom(buf, dot + 1))
    IN  Dot(strchr(buf, "."))

(***************************************************************************)
(* listener(): one connection of the accept loop                           *)
(***************************************************************************)
\* the message without the \n and \r that end it
RECURSIVE StripEol(_)
StripEol(buf) ==
    IF buf # "" /\ StrAt(buf, Len(buf)) \in {"\n", "\r"}
    THEN StripEol(SubSeq(buf, 1, Len(buf) - 1))
    ELSE buf

\* snprintf("%s.%ld.%s") of the id, now.tv_sec and the answer
listener_reply(id, tv, ans) ==
    id \o "." \o bigint_to_buf(tv.day * SecsPerDay + tv.sod) \o "." \o ans

\* the call of cmds[which_cmds].func and the reply sent afterwards; when the
\* handler ends the process nothing is sent and the socket is not closed
listener_func(msg, b) ==
    /\ \/ /\ cmds[b.which_cmds].func = "cmd_sharelog"
          /\ \E stack \in StackValues, F \in SUBSET (0..1) :
                CanServe(F) /\ cmd_sharelog(b.tm, stack, F)
          /\ UNCHANGED paymentsvars
       \/ /\ cmds[b.which_cmds].func = "cmd_auth"
          /\ \E stale \in StaleValues, F \in SUBSET (0..6) :
                CanServe(F) /\ cmd_auth(b.tm, stale, F)
          /\ UNCHANGED paymentsvars
       \/ /\ cmds[b.which_cmds].func = "cmd_adduser"
          /\ \E rnd \in RandValues, F \in SUBSET (0..3) :
                CanServe(F) /\ cmd_adduser(b.tm, rnd, F)
          /\ UNCHANGED paymentsvars
       \/ /\ cmds[b.which_cmds].func = "cmd_chkpass"
          /\ cmd_chkpass(b.tm)
          /\ UNCHANGED paymentsvars
       \/ /\ cmds[b.which_cmds].func = "cmd_poolstats"
          /\ \E F \in SUBSET (0..1) : CanServe(F) /\ cmd_poolstats(b.tm, F)
          /\ UNCHANGED paymentsvars
       \/ /\ cmds[b.which_cmds].func = "cmd_newid"
          /\ \E F \in SUBSET (0..1) : CanServe(F) /\ cmd_newid(b.tm, F)
       \/ /\ cmds[b.which_cmds].func = "cmd_payments"
          /\ \E stack \in PaymentsStackValues : cmd_payments(b.tm, stack)
    /\ sockd' = [buf |-> msg,
                 sent |-> IF running' THEN <<listener_reply(b.id, now', reply')>> ELSE <<>>,
                 closed |-> running']

\* breakdown() adds the fields tm of the message to the transfer map it
\* finds: a name that find_in_ktree() finds in it keeps the value it has
transfer_found(root, tm) ==
    [n \in DOMAIN root \cup DOMAIN tm |-> IF n \in DOMAIN root THEN root[n] ELSE tm[n]]

\* a listener that leaves the transfer map as the request built it
listener_clear_none(root) == root

\* the end of the loop of listener(): free_ktree(transfer_root) and
\* k_list_transfer_to_head(transfer_store, transfer_list)
listener_clear(root) == <<>>

\* a listener that answers nothing without a handler
listener_ans_silent(msg, cmd, b, ans, loop) ==
    /\ now' = Now
    /\ req' = [cmd |-> cmd, tm |-> b.tm]
    /\ reply' = ans
    /\ stmts' = <<>>
    /\ conns' = conns
    /\ nreq' = nreq + 1
    /\ running' = loop
    /\ sockd' = [buf |-> msg, sent |-> <<>>, closed |-> TRUE]
    /\ UNCHANGED <<dbvars, memvars, paymentsvars, faults, proc>>

\* what the listener does without a handler: ans is sent when it is not "",
\* and loop tells whether the accept loop goes on
listener_ans(msg, cmd, b, ans, loop) ==
    /\ now' = Now
    /\ req' = [cmd |-> cmd, tm |-> b.tm]
    /\ reply' = ans
    /\ stmts' = <<>>
    /\ conns' = conns
    /\ nreq' = nreq + 1
    /\ running' = loop
    /\ sockd' = [buf |-> msg,
                 sent |-> IF ans = "" THEN <<>> ELSE <<listener_reply(b.id, Now, ans)>>,
                 closed |-> TRUE]
    /\ UNCHANGED <<dbvars, memvars, paymentsvars, faults, proc>>

\* one pass of the loop of listener() for the message msg that recv_unix_msg()
\* returned ("" when it returned none); buf is the message without its line
\* end and b what breakdown(buf) gives.  Where the behaviour of breakdown()
\* is undefined, segv tells whether the process is killed there or goes on
\* with what breakdown() has built
listener(msg, buf, b, segv) ==
    LET Switch ==
            IF b.ub /\ segv
            THEN /\ Quit("", <<>>, <<>>, {})
                 /\ sockd' = [buf |-> msg, sent |-> <<>>, closed |-> FALSE]
                 /\ UNCHANGED <<dbvars, memvars, paymentsvars>>
            ELSE IF ~b.ub /\ segv THEN FALSE
            ELSE IF b.cmd = "CMD_REPLY" THEN listener_ans(msg, "", b, "?", TRUE)
            ELSE IF b.cmd = "CMD_SHUTDOWN" THEN listener_ans(msg, "shutdown", b, "exiting", FALSE)
            ELSE IF b.cmd = "CMD_PING" THEN listener_ans(msg, "ping", b, "pong", TRUE)
            ELSE listener_func(msg, b)
    IN  /\ IF buf = ""
           THEN /\ ~segv
                /\ listener_ans(msg, "", [id |-> "", tm |-> transfer_root], "", TRUE)
           ELSE Switch
        /\ transfer_root' = IF buf # "" /\ (b.cmd = "CMD_SHUTDOWN" \/ ~running')
                            THEN b.tm
                            ELSE listener_clear(IF buf = "" THEN transfer_root ELSE b.tm)

(***************************************************************************)
(* Specifications                                                          *)
(***************************************************************************)
\* the handlers of the concurrent specification
Procs == {1, 2}
IdleProc ==
    [pc |-> "idle", tm |-> <<>>, rnd |-> 0, now |-> TvOfSecs(0, 0), item |-> 0,
     lastid |-> 0, id |-> 0, ins |-> FALSE, reply |-> "",
     acc |-> [op |-> "", index |-> ""],    \* the list or tree operation made last
     held |-> {}]                          \* and the locks held while it was made

\* the text the DB returns for a timestamp: the date and time, the
\* microseconds when there are any, and the time zone of the session
db_timestamp(tv) ==
    SubSeq(tv_to_buf(tv), 1, 19)
    \o (IF tv.usec = 0 THEN "" ELSE SubSeq(tv_to_buf(tv), 20, 26)) \o "+00"

\* a *_fill(): every row the select returns is put in the next free item,
\* the fields tvflds going through TXT_TO_TV
RECURSIVE fill_rows(_, _, _, _)
fill_rows(rows, tvflds, root, list) ==
    LET Row(r) ==
            [f \in DOMAIN r |-> IF f \in tvflds THEN TxtToTv(db_timestamp(r[f])).tv ELSE r[f]]
        Rest(r) ==
            fill_rows(rows \ {r}, tvflds,
                      add_to_ktree(root, Merge(Row(r), [item |-> Head(list)])),
                      k_unlink_head(list))
    IN  IF rows = {} THEN [root |-> root, list |-> list]
        ELSE Rest(CHOOSE x \in rows : TRUE)

\* the fields HISTORYDATEFLDS converts with TXT_TO_TV
HISTORYDATEFLDS == {"createdate", "expirydate"}

\* users_fill() and workers_fill() select every row of the table,
\* payments_fill(), auths_fill() and workinfo_fill() those with
\* expirydate = default_expiry
users_fill(db, root, list) ==
    fill_rows(db, HISTORYDATEFLDS \cup {"joineddate"}, root, list)
workers_fill(db, root, list) == fill_rows(db, HISTORYDATEFLDS, root, list)
payments_fill(db, root, list) ==
    fill_rows({r \in db : r.expirydate = default_expiry},
              HISTORYDATEFLDS \cup {"paydate"}, root, list)
auths_fill(db, root, list) ==
    fill_rows({r \in db : r.expirydate = default_expiry}, HISTORYDATEFLDS, root, list)
workinfo_fill(db, root, list) ==
    fill_rows({r \in db : r.expirydate = default_expiry}, HISTORYDATEFLDS, root, list)

(***************************************************************************)
(* reload                                                                  *)
(***************************************************************************)
\* free_ktree() and k_list_transfer_to_head(): the tree is emptied and the
\* items of the store are put back at the head of the free list
RECURSIVE k_list_transfer_to_head(_, _)
k_list_transfer_to_head(store, list) ==
    IF store = {} THEN list
    ELSE LET Item(i) == k_add_head(k_list_transfer_to_head(store \ {i}, list), i)
         IN  Item(CHOOSE i \in store : \A j \in store : i <= j)

\* a *_reload() that leaves the tree and the store as they are
reload_purge_none(root, list) == [root |-> root, list |-> list]

\* the purge of a *_reload()
reload_purge(root, list) ==
    [root |-> new_ktree, list |-> k_list_transfer_to_head({r.item : r \in root}, list)]

\* a *_reload() returned: statement 1 is the select of its *_fill()
Reloaded(cmd, table, F) ==
    /\ F \subseteq {1}
    /\ Finished(cmd, <<>>, "", <<Stmt("select " \o table, 1 \notin F)>>, F)

\* dbconnect() of a *_reload() ended the process
ReloadQuit(cmd, F) ==
    /\ F = {0}
    /\ Quit(cmd, <<>>, <<>>, F)
    /\ UNCHANGED <<dbvars, memvars, paymentsvars, sockd, transfer_root>>

users_reload(F) ==
    LET Filled(f) ==
            /\ users_root' = f.root /\ userid_root' = f.root /\ users_list' = f.list
            /\ Reloaded("users_reload", "users", F)
            /\ UNCHANGED <<dbvars, workersvars, workinfovars, sharesvars, authsvars,
                           poolstatsvars, paymentsvars, sockd, transfer_root>>
        Purged(p) ==
            Filled(IF 1 \in F THEN p ELSE users_fill(db_users, p.root, p.list))
    IN  IF ~dbconnect(F) THEN ReloadQuit("users_reload", F)
        ELSE Purged(reload_purge(users_root, users_list))

workers_reload(F) ==
    LET Filled(f) ==
            /\ workers_root' = f.root /\ workers_list' = f.list
            /\ Reloaded("workers_reload", "workers", F)
            /\ UNCHANGED <<dbvars, usersvars, workinfovars, sharesvars, authsvars,
                           poolstatsvars, paymentsvars, sockd, transfer_root>>
        Purged(p) ==
            Filled(IF 1 \in F THEN p ELSE workers_fill(db_workers, p.root, p.list))
    IN  IF ~dbconnect(F) THEN ReloadQuit("workers_reload", F)
        ELSE Purged(reload_purge(workers_root, workers_list))

payments_reload(F) ==
    LET Filled(f) ==
            /\ payments_root' = f.root /\ payments_list' = f.list
            /\ Reloaded("payments_reload", "payments", F)
            /\ UNCHANGED <<dbvars, memvars, db_payments, sockd, transfer_root>>
        Purged(p) ==
            Filled(IF 1 \in F THEN p ELSE payments_fill(db_payments, p.root, p.list))
    IN  IF ~dbconnect(F) THEN ReloadQuit("payments_reload", F)
        ELSE Purged(reload_purge(payments_root, payments_list))

auths_reload(F) ==
    LET Filled(f) ==
            /\ auths_root' = f.root /\ auths_list' = f.list
            /\ Reloaded("auths_reload", "auths", F)
            /\ UNCHANGED <<dbvars, usersvars, workersvars, workinfovars, sharesvars,
                           poolstatsvars, paymentsvars, sockd, transfer_root>>
        Purged(p) ==
            Filled(IF 1 \in F THEN p ELSE auths_fill(db_auths, p.root, p.list))
    IN  IF ~dbconnect(F) THEN ReloadQuit("auths_reload", F)
        ELSE Purged(reload_purge(auths_root, auths_list))

\* the DB the daemon starts on: one that holds the idcontrol rows only, and
\* one where alice joined a month ago and authorised alice.rig1
StoredUsers ==
    {DbRow(users_row(0, 666, "alice", "alice@example.com", Repeat("a", 64),
                     MkTime(2014, 5, 1, 0, 0, 0), ListenerBy, ListenerCode, ListenerInet))}

StoredWorkers ==
    {DbRow(workers_row(0, 1, 666, "alice.rig1", workers_settings("", "", "", 0),
                       MkTime(2014, 5, 1, 0, 1, 0), ListenerBy, ListenerCode, ListenerInet))}

\* the work the pool handed out on the eve of the start
StoredWorkinfo ==
    {DbRow(workinfo_row(0, Merge(WorkinfoFields, [workinfoid |-> "9"]),
                        MkTime(2014, 5, 31, 0, 0, 0), ListenerBy, ListenerCode,
                        ListenerInet))}

\* a row of the payments table
payments_stored(paymentid, userid, paydate, payaddress, amount) ==
    Merge([paymentid |-> paymentid, userid |-> userid, paydate |-> paydate,
           payaddress |-> payaddress, originaltxn |-> "", amount |-> amount,
           committxn |-> "", commitblockhash |-> ""],
          HISTORYDATEINIT(paydate, ListenerBy, ListenerCode, ListenerInet))

\* alice (userid 666) was paid twice, the later payment being stored first,
\* and so were the users who left with userid 665 and 667
StoredPayments ==
    {payments_stored(1, 666, MkTime(2014, 5, 20, 12, 0, 0), "1BoatSLRHtKNngkdXEeobR76b", 70000),
     payments_stored(2, 665, MkTime(2014, 5, 12, 12, 0, 0), "1dice8EMZmqKvrGE4Qc9bUFf9", 300),
     payments_stored(3, 666, MkTime(2014, 5, 10, 12, 0, 0), "1BoatSLRHtKNngkdXEeobR76b", 50000),
     payments_stored(4, 667, MkTime(2014, 5, 11, 12, 0, 0), "1dice8EMZmqKvrGE4Qc9bUFf9", 200)}

InitialDBs ==
    {[users |-> {}, workers |-> {}, payments |-> {}, auths |-> {}, workinfo |-> {},
      idcontrol |-> [n \in {"userid", "workerid", "authid"} |-> 0]],
     [users |-> StoredUsers, workers |-> StoredWorkers, payments |-> StoredPayments,
      auths |-> {}, workinfo |-> {},
      idcontrol |-> [userid |-> 666, workerid |-> 1, authid |-> 0]]}

\* setup_data() on the DB d: the lists and trees are created and getdata()
\* fills them from the DB; the clock is at 2014-06-01 00:00:00
InitOn(d) ==
    /\ db_users = d.users /\ db_workers = d.workers /\ db_idcontrol = d.idcontrol
    /\ db_payments = d.payments /\ db_auths = d.auths
    /\ users_root = users_fill(d.users, new_ktree, k_new_list).root
    /\ userid_root = users_fill(d.users, new_ktree, k_new_list).root
    /\ users_list = users_fill(d.users, new_ktree, k_new_list).list
    /\ workers_root = workers_fill(d.workers, new_ktree, k_new_list).root
    /\ workers_list = workers_fill(d.workers, new_ktree, k_new_list).list
    /\ payments_root = payments_fill(d.payments, new_ktree, k_new_list).root
    /\ payments_list = payments_fill(d.payments, new_ktree, k_new_list).list
    /\ auths_root = auths_fill(d.auths, new_ktree, k_new_list).root
    /\ auths_list = auths_fill(d.auths, new_ktree, k_new_list).list
    /\ db_workinfo = d.workinfo /\ db_poolstats = {}
    /\ workinfo_root = workinfo_fill(d.workinfo, new_ktree, k_new_list).root
    /\ workinfo_list = workinfo_fill(d.workinfo, new_ktree, k_new_list).list
    /\ shares_root = new_ktree /\ shares_list = k_new_list
    /\ shareerrors_root = new_ktree /\ shareerrors_list = k_new_list
    /\ poolstats_root = new_ktree /\ poolstats_list = k_new_list
    /\ sockd = [buf |-> "", sent |-> <<>>, closed |-> TRUE]
    /\ transfer_root = <<>>
    /\ now = MkTime(2014, 6, 1, 0, 0, 0)
    /\ running = TRUE
    /\ req = [cmd |-> "", tm |-> <<>>]
    /\ reply = ""
    /\ stmts = <<>>
    /\ conns = 0
    /\ nreq = 0
    /\ faults = 0
    /\ proc = [p \in Procs |-> IdleProc]

Init == \E d \in InitialDBs : InitOn(d)

\* a row of a table that was expired at the time tv
Expired(row, tv) == [row EXCEPT !.expirydate = tv]

\* a DB with history: alice changed her address and the settings of
\* alice.rig1 a month after she joined, one of her payments was replaced and
\* alice.rig1 authorised twice, its first authorisation having been expired
HistoryDB ==
    [users |->
        StoredUsers
        \cup {Expired(DbRow(users_row(0, 666, "alice", "old@example.com", Repeat("a", 64),
                                      MkTime(2014, 4, 1, 0, 0, 0), ListenerBy, ListenerCode,
                                      ListenerInet)),
                      MkTime(2014, 5, 1, 0, 0, 0))},
     workers |->
        StoredWorkers
        \cup {Expired(DbRow(workers_row(0, 1, 666, "alice.rig1",
                                        workers_settings("20", "y", "30", 0),
                                        MkTime(2014, 4, 1, 0, 1, 0), ListenerBy, ListenerCode,
                                        ListenerInet)),
                      MkTime(2014, 5, 1, 0, 1, 0))},
     payments |->
        StoredPayments
        \cup {Expired(payments_stored(3, 666, MkTime(2014, 5, 10, 12, 0, 0),
                                      "1BoatSLRHtKNngkdXEeobR76b", 40000),
                      MkTime(2014, 5, 10, 13, 0, 0))},
     auths |->
        {DbRow(auths_row(0, a, 666,
                         [workername |-> "alice.rig1", clientid |-> "42",
                          enonce1 |-> "deadbeef", useragent |-> "cgminer/4.0"],
                         MkTime(2014, 5, 1, 0, a, 0), ListenerBy, ListenerCode,
                         ListenerInet)) : a \in {2}}
        \cup {Expired(DbRow(auths_row(0, 1, 666,
                                      [workername |-> "alice.rig1", clientid |-> "41",
                                       enonce1 |-> "deadbeef", useragent |-> "cgminer/4.0"],
                                      MkTime(2014, 5, 1, 0, 1, 0), ListenerBy, ListenerCode,
                                      ListenerInet)),
                      MkTime(2014, 5, 2, 0, 0, 0))},
     workinfo |->
        StoredWorkinfo
        \cup {Expired(DbRow(workinfo_row(0, Merge(WorkinfoFields, [workinfoid |-> "8"]),
                                         MkTime(2014, 5, 30, 0, 0, 0), ListenerBy,
                                         ListenerCode, ListenerInet)),
                      MkTime(2014, 5, 31, 0, 0, 0))},
     idcontrol |-> [userid |-> 666, workerid |-> 1, authid |-> 2]]

\* a DB where alice and alice.rig1 are stored and the workinfo 9 was added
WorkinfoDB ==
    [users |-> StoredUsers, workers |-> StoredWorkers, payments |-> {}, auths |-> {},
     workinfo |-> StoredWorkinfo,
     idcontrol |-> [userid |-> 666, workerid |-> 1, authid |-> 0]]

\* the listener serving the requests of the pool and of the web, one at a time
Next == CmdAdduser \/ CmdChkpass \/ CmdAuth \/ CmdSharelog \/ CmdPoolstats

Spec == Init /\ [][Next]_vars

(***************************************************************************)
(* The accept loop: the messages of the clients, one connection at a time  *)
(***************************************************************************)
\* the fields of a message joined by FLDSEP
RECURSIVE Fields(_)
Fields(flds) ==
    IF flds = <<>> THEN ""
    ELSE IF Len(flds) = 1 THEN Head(flds)
    ELSE Head(flds) \o FLDSEP \o Fields(Tail(flds))

\* what the clients send: recv_unix_msg() gives "" when it read nothing
Messages ==
    {"", "\r\n", "nodot", "7.frob.x=1", "8.frob",
     "1.ping", "2.PING.", "3.ping.x=1\n", "4.shutdown.", "5.Shutdown",
     "abcdefghijklmnopqrstuvwxyz0123456789.ping.",
     "11.adduser." \o Fields(<<"username=bob", "emailaddress=bob@example.com",
                               "passwordhash=" \o Repeat("b", 64)>>),
     "12.adduser." \o Fields(<<"username=bob", "username=eve", "emailaddress=bob@example.com",
                               "passwordhash=" \o Repeat("b", 64), "emailaddress=">>),
     "13.adduser.json={\"username\":\"carol\",\"emailaddress\":\"carol@example.com\","
        \o "\"passwordhash\":\"" \o Repeat("c", 64) \o "\",\"username\":\"eve\"}",
     "14.adduser.json={\"username\":\"carol\"",
     "15.chkpass." \o Fields(<<"username=alice", "passwordhash=" \o Repeat("A", 64)>>),
     "16.chkpass",
     "17.authorise." \o Fields(<<"method=authorise", "username=alice",
                                 "workername=alice.rig2", "clientid=42", "enonce1=deadbeef",
                                 "useragent=cgminer/4.0">>),
     "18.poolstats." \o Fields(<<"poolinstance=main", "users=3", "workers=5",
                                 "hashrate=100.5", "hashrate5m=90", "hashrate1hr=80",
                                 "hashrate24hr=70", "createdate=1401580920,0">>),
     "19.poolstats.json={\"poolinstance\":\"main\",\"users\":3,\"workers\":5,"
        \o "\"hashrate\":100.5,\"hashrate5m\":90,\"hashrate1hr\":80,\"hashrate24hr\":70,"
        \o "\"up\":true,\"merkle\":[\"ab\",\"cd\"]}",
     "20.payments.username=alice", "21.payments.username=zed", "22.payments.username=al",
     "23.newid." \o Fields(<<"idname=paymentid", "idvalue=100">>),
     "24.newid." \o Fields(<<"idname=userid", "idvalue=5">>),
     "25.sharelog.method=frob",
     "26.ping." \o Fields(<<"a=1", "b", "a=2", "b=3", "a=">>),
     "27.sharelog." \o Fields(<<"method=workinfo", "workinfoid=9", "poolinstance=main",
                                "transactiontree=t", "merklehash=m", "prevhash=p",
                                "coinbase1=c1", "coinbase2=c2", "version=2", "bits=b",
                                "ntime=n", "reward=25">>),
     "28.adduser." \o Fields(<<"username=al", "emailaddress=al@example.com",
                               "passwordhash=" \o Repeat("b", 64)>>),
     "29.newid." \o Fields(<<"idname=9ids", "idvalue=100">>),
     "30.sharelog." \o Fields(<<"method=workinfo", "workinfoid=9">>),
     "31.authorise." \o Fields(<<"method=authorise", "username=alice">>)}

\* breakdown() of every message
Received == [msg \in Messages |-> breakdown(StripEol(msg))]

\* one connection is accepted and served
Listener ==
    /\ running
    /\ nreq < MaxReq
    /\ \E msg \in Messages, segv \in BOOLEAN :
            listener(msg, StripEol(msg),
                     [Received[msg] EXCEPT !.tm = transfer_found(transfer_root, @)], segv)

NextListener == Listener

SpecListener == Init /\ [][NextListener]_vars

(***************************************************************************)
(* require_name() and optional_name() on one transfer map                  *)
(***************************************************************************)
\* the names the handlers ask for
NameValues == {"username", "passwordhash", "idvalue"}

\* the values a transfer item may hold
DataValues ==
    {"", " ", "al", "a b", "alice", "a@b.co", "_id9", "12345678", "12345678901",
     Repeat("a", 64), Repeat("g", 64)}

\* the minimum lengths the handlers pass
LenValues == {1, 3, 7, 10, 64}

\* the patterns the handlers pass, nopatt standing for NULL
PattValues == {nopatt, userpatt, mailpatt, idpatt, intpatt, hashpatt}

\* one call of require_name() and one of optional_name() with the same
\* arguments on a transfer map of at most one item, for the first request of
\* a run: req keeps the arguments, item and optional whether each returned
\* the entry, reply what require_name() wrote
NameCall ==
    /\ nreq = 0
    /\ nreq' = 1
    /\ \E name \in NameValues, held \in NameValues, value \in DataValues,
       len \in LenValues, patt \in PattValues, rec \in BOOLEAN, none \in BOOLEAN :
        LET Call(tm) ==
                /\ req' = [cmd |-> "require_name", tm |-> tm, name |-> name, len |-> len,
                           patt |-> patt, rec |-> rec,
                           item |-> require_name_re(tm, name, len, patt, rec) = "",
                           optional |-> optional_name_re(tm, name, len, patt, rec)]
                /\ reply' = require_name_re(tm, name, len, patt, rec)
        IN  /\ Call(IF none THEN <<>> ELSE (held :> value))
            /\ UNCHANGED <<dbvars, memvars, paymentsvars, sockd, transfer_root, now, running,
                           stmts, conns, faults, proc>>

NextNames == NameCall

SpecNames == Init /\ [][NextNames]_vars

(***************************************************************************)
(* The reloads and workers_update() next to the authorise handler          *)
(***************************************************************************)
UsersReload == \E F \in SUBSET (0..1) : CanServe(F) /\ users_reload(F)
WorkersReload == \E F \in SUBSET (0..1) : CanServe(F) /\ workers_reload(F)
PaymentsReload == \E F \in SUBSET (0..1) : CanServe(F) /\ payments_reload(F)
AuthsReload == \E F \in SUBSET (0..1) : CanServe(F) /\ auths_reload(F)

InitReload == \E d \in InitialDBs \cup {HistoryDB} : InitOn(d)

NextReload ==
    CmdAuth \/ WorkersUpdate \/ UsersReload \/ WorkersReload \/ PaymentsReload
    \/ AuthsReload

SpecReload == InitReload /\ [][NextReload]_vars

\* the pool logging shares against work the daemon loaded at its start
InitShares == InitOn(WorkinfoDB)

NextShares == CmdSharelog

SpecShares == InitShares /\ [][NextShares]_vars

\* the settings new_worker() can be given for a worker it is to add: absent,
\* below the minimum, above the maximum and within the limits
WorkerSettings ==
    {<<"", "", "">>, <<"5", "y", "5">>, <<"2000000", "n", "99">>, <<"100", "Y", "30">>}

\* new_worker() with update = false for a worker of a live user and any
\* settings: workers_add() adds the worker when find_workers() finds none.
\* req keeps the arguments and reply tells whether an item was returned
NewWorker ==
    \E u \in users_root, name \in {"alice.rig1", "alice.rig5", "alice.rig6"},
       v \in WorkerSettings, stale \in StaleValues, F \in SUBSET (1..3) :
        LET Args == [userid |-> u.userid, workername |-> name, difficultydefault |-> v[1],
                     idlenotificationenabled |-> v[2], idlenotificationtime |-> v[3]]
            Done(nw) ==
                /\ F \subseteq nw.used
                /\ db_idcontrol' = nw.idc
                /\ db_workers' = nw.db
                /\ workers_root' = nw.root
                /\ workers_list' = nw.list
                /\ Served("new_worker", Args, IF nw.item = NULL THEN "NULL" ELSE "item",
                          nw.stmts, F)
        IN  /\ u.expirydate = default_expiry
            /\ CanServe(F)
            /\ Done(new_worker(db_idcontrol, u.userid, name, v[1], v[2], v[3], stale, Now,
                               ListenerBy, ListenerCode, ListenerInet, F, 0))
            /\ UNCHANGED <<db_users, db_workinfo, db_auths, db_poolstats, usersvars,
                           workinfovars, sharesvars, authsvars, poolstatsvars, paymentsvars,
                           sockd, transfer_root>>

NextWorkers == NewWorker

SpecWorkers == Init /\ [][NextWorkers]_vars

(***************************************************************************)
(* adduser handlers side by side: every handler has its own DB session and *)
(* takes the lock of users_list around its list and tree operations; a     *)
(* step is one lock section or one DB statement.                           *)
(***************************************************************************)
\* the outcomes of one statement: it can fail while the fault budget lasts
StmtOutcomes == IF faults < MaxFaults THEN {TRUE, FALSE} ELSE {TRUE}

ConcFault(ok) == faults' = IF ok THEN faults ELSE faults + 1

ConcKeep ==
    UNCHANGED <<db_workers, db_workinfo, db_auths, db_poolstats, workersvars, workinfovars,
                sharesvars, authsvars, poolstatsvars, paymentsvars, sockd, transfer_root,
                running, req,
                reply, stmts, conns>>

\* the row users_add() builds for handler p
ConcRow(p) ==
    users_row(proc[p].item, proc[p].id, proc[p].tm["username"], proc[p].tm["emailaddress"],
              proc[p].tm["passwordhash"], proc[p].now, ListenerBy, ListenerCode, ListenerInet)

\* cmd_adduser() down to the first lock section of users_add()
ConcStart(p) ==
    /\ running /\ nreq < MaxReq
    /\ proc[p].pc \in {"idle", "done"}
    /\ \E tm \in AdduserTransfers, rnd \in RandValues :
        IF adduser_fail(tm) # ""
        THEN /\ proc' = [proc EXCEPT ![p] = [IdleProc EXCEPT !.pc = "done", !.tm = tm,
                                                             !.reply = adduser_fail(tm)]]
             /\ users_list' = users_list
        ELSE /\ proc' = [proc EXCEPT ![p] = [IdleProc EXCEPT !.pc = "select", !.tm = tm,
                                                             !.rnd = rnd, !.now = Now,
                                                             !.item = Head(users_list)]]
             /\ users_list' = k_unlink_head(users_list)
    /\ now' = Now
    /\ nreq' = nreq + 1
    /\ UNCHANGED <<db_users, db_idcontrol, users_root, userid_root, faults>>
    /\ ConcKeep

\* the select of nextid()
ConcSelect(p) ==
    /\ proc[p].pc = "select"
    /\ \E ok \in StmtOutcomes :
        LET sel == nextid_select(db_idcontrol, "userid", ok)
        IN  /\ proc' = [proc EXCEPT ![p].lastid = sel.lastid,
                                    ![p].pc = IF sel.ok THEN "update" ELSE "link"]
            /\ ConcFault(ok)
    /\ UNCHANGED <<db_users, db_idcontrol, usersvars, now, nreq>>
    /\ ConcKeep

\* the update of nextid()
ConcUpdate(p) ==
    /\ proc[p].pc = "update"
    /\ \E ok \in StmtOutcomes :
        LET upd == nextid_update(db_idcontrol, "userid",
                                 proc[p].lastid + users_increment(proc[p].rnd), ok)
        IN  /\ db_idcontrol' = upd.idc
            /\ proc' = [proc EXCEPT ![p].id = upd.id,
                                    ![p].pc = IF upd.id = 0 THEN "link" ELSE "insert"]
            /\ ConcFault(ok)
    /\ UNCHANGED <<db_users, usersvars, now, nreq>>
    /\ ConcKeep

\* the insert of users_add()
ConcInsert(p) ==
    /\ proc[p].pc = "insert"
    /\ \E ok \in StmtOutcomes :
        LET ins == DbAccepts(db_users, DbRow(ConcRow(p)), users_keys, ok)
        IN  /\ db_users' = IF ins THEN db_users \cup {DbRow(ConcRow(p))} ELSE db_users
            /\ proc' = [proc EXCEPT ![p].ins = ins, ![p].pc = "link"]
            /\ ConcFault(ok)
    /\ UNCHANGED <<db_idcontrol, usersvars, now, nreq>>
    /\ ConcKeep

\* the last lock section of users_add() and the reply of cmd_adduser()
ConcLink(p) ==
    /\ proc[p].pc = "link"
    /\ LET ok == users_add_ok(proc[p].id, proc[p].ins)
           link == users_add_link(ok, users_root, userid_root, users_list, proc[p].item,
                                  ConcRow(p))
       IN  /\ users_root' = link.root
           /\ userid_root' = link.idroot
           /\ users_list' = link.list
           /\ proc' = [proc EXCEPT ![p].pc = "done",
                                   ![p].reply = IF ok THEN "added." \o proc[p].tm["username"]
                                                ELSE "failed.DBE"]
    /\ UNCHANGED <<db_users, db_idcontrol, now, nreq, faults>>
    /\ ConcKeep

NextConc ==
    \E p \in Procs :
        ConcStart(p) \/ ConcSelect(p) \/ ConcUpdate(p) \/ ConcInsert(p) \/ ConcLink(p)

SpecConc == Init /\ [][NextConc]_vars

(***************************************************************************)
(* shares_add() and cmd_payments() step by step: a step is one lock        *)
(* section or one lookup, and records the operation made on a list or an   *)
(* index together with the locks the handler held while it made it.        *)
(***************************************************************************)
\* K_WLOCK(list) ... K_WUNLOCK(list) around the operation
K_WLOCK(list) == {[list |-> list, mode |-> "W"]}

\* an operation made on index with the locks in held
Access(p, op, index, held) ==
    [proc[p] EXCEPT !.acc = [op |-> op, index |-> index], !.held = held]

LockShares ==
    {tm \in SharelogTransfers :
        /\ "method" \in DOMAIN tm /\ tm["method"] = "shares"
        /\ sharelog_shares_fail(tm) = ""}

LockPayments == {[username |-> "alice"], [username |-> "zed"], [username |-> "bob"]}

LockKeep ==
    UNCHANGED <<dbvars, usersvars, workersvars, workinfovars, authsvars, poolstatsvars,
                shareerrors_root, shareerrors_list, payments_root, db_payments, sockd,
                transfer_root,
                running, req, reply, stmts, conns, faults>>

\* the listener hands a request to cmd_sharelog() or cmd_payments()
LockStart(p) ==
    /\ running /\ nreq < MaxReq
    /\ proc[p].pc \in {"idle", "done"}
    /\ \/ \E tm \in LockShares :
            proc' = [proc EXCEPT ![p] = [IdleProc EXCEPT !.pc = "shares_unlink", !.tm = tm,
                                                         !.now = Now]]
       \/ \E tm \in LockPayments :
            proc' = [proc EXCEPT ![p] = [IdleProc EXCEPT !.pc = "payments_users", !.tm = tm,
                                                         !.now = Now]]
    /\ now' = Now
    /\ nreq' = nreq + 1
    /\ UNCHANGED <<shares_root, shares_list, payments_list>>
    /\ LockKeep

\* shares_add(): s_item = k_unlink_head(shares_list) in its lock section
SharesUnlink(p) ==
    /\ proc[p].pc = "shares_unlink"
    /\ shares_list # <<>>
    /\ shares_list' = k_unlink_head(shares_list)
    /\ proc' = [proc EXCEPT ![p] = [Access(p, "k_unlink_head", "shares", K_WLOCK("shares"))
                                        EXCEPT !.item = Head(shares_list),
                                               !.pc = "shares_users"]]
    /\ UNCHANGED <<shares_root, payments_list, now, nreq>>
    /\ LockKeep

\* shares_add(): u_item = find_users(username)
SharesFindUsers(p) ==
    /\ proc[p].pc = "shares_users"
    /\ LET Found(u_item) ==
               proc' = [proc EXCEPT ![p] = [Access(p, "find_users", "users", {})
                           EXCEPT !.id = IF u_item = NULL THEN 0 ELSE u_item.userid,
                                  !.pc = IF u_item = NULL THEN "shares_link"
                                         ELSE "shares_workinfo"]]
       IN  Found(find_users(users_root, proc[p].tm["username"]))
    /\ UNCHANGED <<shares_root, shares_list, payments_list, now, nreq>>
    /\ LockKeep

\* shares_add(): w_item = find_workinfo(shares->workinfoid)
SharesFindWorkinfo(p) ==
    /\ proc[p].pc = "shares_workinfo"
    /\ \E stack \in StackValues :
         proc' = [proc EXCEPT ![p] = [Access(p, "find_workinfo", "workinfo", {})
                     EXCEPT !.pc = IF find_workinfo(workinfo_root,
                                                    Atoll(proc[p].tm["workinfoid"]),
                                                    stack) = NULL
                                   THEN "shares_link" ELSE "shares_workers"]]
    /\ UNCHANGED <<shares_root, shares_list, payments_list, now, nreq>>
    /\ LockKeep

\* shares_add(): w_item = find_workers(shares->userid, shares->workername)
SharesFindWorkers(p) ==
    /\ proc[p].pc = "shares_workers"
    /\ proc' = [proc EXCEPT ![p] = [Access(p, "find_workers", "workers", {})
                    EXCEPT !.ins = find_workers(workers_root, proc[p].id,
                                                StrNCpy(proc[p].tm["workername"],
                                                        TXT_BIG + 1)) # NULL,
                           !.pc = "shares_link"]]
    /\ UNCHANGED <<shares_root, shares_list, payments_list, now, nreq>>
    /\ LockKeep

\* shares_add() at unitem: the item goes into the index or back to the list
SharesLink(p) ==
    /\ proc[p].pc = "shares_link"
    /\ IF proc[p].ins
       THEN /\ shares_root' = add_to_ktree(shares_root,
                                           shares_row(proc[p].item, proc[p].id, proc[p].tm,
                                                      proc[p].now, ListenerBy, ListenerCode,
                                                      ListenerInet))
            /\ shares_list' = shares_list
            /\ proc' = [proc EXCEPT ![p] = [Access(p, "add_to_ktree", "shares",
                                                   K_WLOCK("shares"))
                            EXCEPT !.pc = "done",
                                   !.reply = "added." \o proc[p].tm["nonce"]]]
       ELSE /\ shares_root' = shares_root
            /\ shares_list' = k_add_head(shares_list, proc[p].item)
            /\ proc' = [proc EXCEPT ![p] = [Access(p, "k_add_head", "shares",
                                                   K_WLOCK("shares"))
                            EXCEPT !.pc = "done", !.reply = "bad.DATA"]]
    /\ UNCHANGED <<payments_list, now, nreq>>
    /\ LockKeep

\* cmd_payments(): require_name() and u_item = find_users(username)
PaymentsFindUsers(p) ==
    /\ proc[p].pc = "payments_users"
    /\ LET Found(u_item) ==
               proc' = [proc EXCEPT ![p] = [Access(p, "find_users", "users", {})
                           EXCEPT !.id = IF u_item = NULL THEN 0 ELSE u_item.userid,
                                  !.reply = IF u_item = NULL THEN "bad" ELSE "",
                                  !.pc = IF u_item = NULL THEN "done" ELSE "payments_unlink"]]
           Checked(fail) ==
               IF fail # ""
               THEN proc' = [proc EXCEPT ![p].reply = fail, ![p].pc = "done"]
               ELSE Found(find_users(users_root, proc[p].tm["username"]))
       IN  Checked(require_name(proc[p].tm, "username", 3, userpatt))
    /\ UNCHANGED <<shares_root, shares_list, payments_list, now, nreq>>
    /\ LockKeep

\* cmd_payments(): look = k_unlink_head(payments_list) in its lock section
PaymentsUnlink(p) ==
    /\ proc[p].pc = "payments_unlink"
    /\ payments_list # <<>>         \* the free lists of the model do not grow
    /\ payments_list' = k_unlink_head(payments_list)
    /\ proc' = [proc EXCEPT ![p] = [Access(p, "k_unlink_head", "payments",
                                           K_WLOCK("payments"))
                                        EXCEPT !.item = Head(payments_list),
                                               !.pc = "payments_find"]]
    /\ UNCHANGED <<shares_root, shares_list, now, nreq>>
    /\ LockKeep

\* cmd_payments(): find_after_in_ktree() and the next_in_ktree() loop
PaymentsIterate(p) ==
    /\ proc[p].pc = "payments_find"
    /\ \E stack \in PaymentsStackValues :
         LET look == Merge(stack, [item |-> proc[p].item, userid |-> proc[p].id,
                                   paydate |-> TvOfSecs(0, 0)])
         IN  proc' = [proc EXCEPT ![p] = [Access(p, "find_after_in_ktree", "payments", {})
                         EXCEPT !.reply = payments_rows(
                                              find_after_in_ktree(payments_root, look,
                                                                  "cmp_payments"),
                                              proc[p].id, 0, "ok."),
                                !.pc = "payments_relink"]]
    /\ UNCHANGED <<shares_root, shares_list, payments_list, now, nreq>>
    /\ LockKeep

\* cmd_payments(): k_add_head(payments_list, look) in its lock section
PaymentsRelink(p) ==
    /\ proc[p].pc = "payments_relink"
    /\ payments_list' = k_add_head(payments_list, proc[p].item)
    /\ proc' = [proc EXCEPT ![p] = [Access(p, "k_add_head", "payments", K_WLOCK("payments"))
                                        EXCEPT !.pc = "done"]]
    /\ UNCHANGED <<shares_root, shares_list, now, nreq>>
    /\ LockKeep

NextLocks ==
    \/ CmdSharelog
    \/ \E p \in Procs :
          \/ LockStart(p)
          \/ SharesUnlink(p) \/ SharesFindUsers(p) \/ SharesFindWorkinfo(p)
          \/ SharesFindWorkers(p) \/ SharesLink(p)
          \/ PaymentsFindUsers(p) \/ PaymentsUnlink(p) \/ PaymentsIterate(p)
          \/ PaymentsRelink(p)

SpecLocks == Init /\ [][NextLocks]_vars

(***************************************************************************)
(* Properties                                                              *)
(***************************************************************************)
Live(r) == r.expirydate = default_expiry

\* a statement of st that is one of sqls failed
Failed(st, sqls) == \E i \in 1..Len(st) : st[i].sql \in sqls /\ ~st[i].ok

\* a statement of st that is sql succeeded
Succeeded(st, sql) == \E i \in 1..Len(st) : st[i] = Stmt(sql, TRUE)

\* every item of a list of NItems items is either free or linked
SlotsKept(list, root) ==
    /\ Len(list) + Cardinality(root) = NItems
    /\ {list[i] : i \in 1..Len(list)} \cup {r.item : r \in root} = 1..NItems


C1_Acked ==
    /\ \A r \in users_root : DbRow(r) \in db_users
    /\ userid_root = users_root
    /\ \A r \in workers_root : DbRow(r) \in db_workers
    /\ \A r \in workinfo_root : DbRow(r) \in db_workinfo
    /\ \A r \in auths_root : DbRow(r) \in db_auths

C1_Slots ==
    /\ SlotsKept(users_list, users_root)
    /\ SlotsKept(workers_list, workers_root)
    /\ SlotsKept(workinfo_list, workinfo_root)
    /\ SlotsKept(auths_list, auths_root)

C1_NoLinkOnFailure ==
    /\ Failed(stmts', {"select idcontrol userid", "update idcontrol userid", "insert users"})
         => UNCHANGED usersvars
    /\ Failed(stmts', {"select idcontrol workerid", "update idcontrol workerid", "insert workers"})
         => UNCHANGED workersvars
    /\ Failed(stmts', {"insert workinfo"}) => UNCHANGED workinfovars
    /\ Failed(stmts', {"select idcontrol authid", "update idcontrol authid", "insert auths"})
         => UNCHANGED authsvars

\* C1: every users, workers, workinfo and auths row linked in memory is a row
\* whose insert the DB acknowledged, every item is either free or linked, and
\* a request whose id allocation or insert for an entity failed leaves the
\* tree of that entity as it was with the item back on the free list
C1_LinkedRowsAcked == [](C1_Acked /\ C1_Slots) /\ [][C1_NoLinkOnFailure]_vars

C1_Witness ==
    /\ req.cmd = "authorise"
    /\ Failed(stmts, {"insert workers"})
    /\ Succeeded(stmts, "insert auths")
    /\ auths_root # {}

\* C2: there is at most one live users row per username and at most one live
\* workers row per (userid, workername)
C2_OneLiveRow ==
    /\ \A a, b \in users_root : Live(a) /\ Live(b) /\ a.username = b.username => a = b
    /\ \A a, b \in workers_root :
         Live(a) /\ Live(b) /\ a.userid = b.userid /\ a.workername = b.workername => a = b

C2_Witness ==
    /\ req.cmd = "adduser"
    /\ reply = "failed.DBE"
    /\ Failed(stmts, {"insert users"})
    /\ faults = 0
    /\ \E u \in users_root : Live(u) /\ u.username = req.tm["username"]

C3_IsShare(r) ==
    /\ r.cmd = "sharelog"
    /\ HasName(r.tm, "method")
    /\ \/ StrCaseEq(r.tm["method"], "shares") /\ sharelog_shares_fail(r.tm) = ""
       \/ StrCaseEq(r.tm["method"], "shareerror") /\ sharelog_shareerrors_fail(r.tm) = ""

C3_Resolves(tm) ==
    \E u \in users_root :
        /\ Live(u) /\ u.username = tm["username"]
        /\ \E w \in workinfo_root : w.workinfoid = Atoll(tm["workinfoid"])
        /\ \E k \in workers_root :
             Live(k) /\ k.userid = u.userid /\ k.workername = tm["workername"]

\* C3: a share or shareerror is linked only by a request whose username is
\* that of a live user, whose workinfoid is that of a workinfo in memory and
\* whose (userid, workername) is that of a live worker; a request that does
\* not resolve all three is answered bad.DATA, links no row and puts the item
\* back
C3_SharesResolve ==
    [][/\ (shares_root' # shares_root \/ shareerrors_root' # shareerrors_root)
            => C3_IsShare(req') /\ C3_Resolves(req'.tm)
       /\ (C3_IsShare(req') /\ ~C3_Resolves(req'.tm))
            => reply' = "bad.DATA" /\ UNCHANGED sharesvars]_vars

C3_Witness ==
    /\ C3_IsShare(req)
    /\ reply = "added." \o req.tm["nonce"]
    /\ \E r \in shares_root : r.workername = req.tm["workername"]

\* C4: after an authorise request answered added.<secondaryuserid> there is
\* a live workers row for the user and the workername of the request, with
\* the default settings when the request created it
C4_AuthHasWorker ==
    [][(req'.cmd = "authorise" /\ HasPrefix(reply', "added."))
          => \E u \in users_root' :
               /\ Live(u) /\ u.username = req'.tm["username"]
               /\ \E w \in workers_root' :
                    /\ Live(w) /\ w.userid = u.userid
                    /\ w.workername = req'.tm["workername"]
                    /\ w \notin workers_root
                         => /\ w.difficultydefault = 10
                            /\ w.idlenotificationenabled = " "
                            /\ w.idlenotificationtime = 10]_vars

\* C5: an id nextid() returns is larger than every id it returned before for
\* the idname, so the handlers that run side by side get different ids
C5_IdsIncrease ==
    [][\A p \in Procs :
          (proc[p].pc = "update" /\ proc'[p].id # 0)
            => \A q \in Procs \ {p} : proc'[p].id > proc[q].id]_vars

PoolstatsOf(poolinstance) == {r \in poolstats_root : r.poolinstance = poolinstance}

MostRecent(rows) == CHOOSE r \in rows : \A q \in rows : TvCmp(q.createdate, r.createdate) <= 0

\* the time the createdate of a request stands for, in either of the formats
\* the program reads a createdate in; the time of the request when it has none
Candidate(tm) ==
    IF ~HasName(tm, "createdate") THEN Now
    ELSE IF ~TxtToTv(tm["createdate"]).quit THEN TxtToTv(tm["createdate"]).tv
    ELSE TransferCreatedate(Now, tm)

\* a poolstats request with the seven fields and no failure of the DB
PoolstatsRequest == req'.cmd = "poolstats" /\ poolstats_fail(req'.tm) = "" /\ faults' = faults

PoolstatsStored ==
    /\ Succeeded(stmts', "insert poolstats")
    /\ Cardinality(poolstats_root') = Cardinality(poolstats_root) + 1

PoolstatsKept ==
    /\ reply' = "added.ok"
    /\ stmts' = <<>>
    /\ Cardinality(poolstats_root') = Cardinality(poolstats_root) + 1

\* C7: a valid poolstats request for a poolinstance that has no row in
\* memory inserts the row into the DB and links it into memory, whatever
\* rows the other poolinstances have
C7_FirstIsStored ==
    [][(PoolstatsRequest /\ PoolstatsOf(req'.tm["poolinstance"]) = {})
          => PoolstatsStored]_vars

\* C8: a poolstats request whose createdate is more than STATS_PER after
\* that of the most recent row of its poolinstance inserts the row into the
\* DB and links it into memory
C8_StoredAfterStatsPer ==
    [][(/\ PoolstatsRequest
        /\ PoolstatsOf(req'.tm["poolinstance"]) # {}
        /\ TvDiffExceeds(Candidate(req'.tm),
                         MostRecent(PoolstatsOf(req'.tm["poolinstance"])).createdate,
                         STATS_PER))
          => PoolstatsStored]_vars

\* C9: a poolstats request whose createdate is at most STATS_PER after that
\* of the most recent row of its poolinstance is answered added.ok, links
\* the row into memory and issues no insert; every poolstats request
\* answered added.ok links one row
C9_KeptWithinStatsPer ==
    [][/\ (/\ PoolstatsRequest
           /\ PoolstatsOf(req'.tm["poolinstance"]) # {}
           /\ ~TvDiffExceeds(Candidate(req'.tm),
                             MostRecent(PoolstatsOf(req'.tm["poolinstance"])).createdate,
                             STATS_PER))
            => PoolstatsKept
       /\ (req'.cmd = "poolstats" /\ reply' = "added.ok")
            => Cardinality(poolstats_root') = Cardinality(poolstats_root) + 1]_vars

\* C10 as amended: chkpass changes no table of memory or of the DB; a
\* request that passes the validation is answered ok when a live users row
\* of the username holds the passwordhash of the request, letter case
\* ignored, and bad otherwise; a request that fails the validation is
\* answered with the failure
C10_ChkpassIgnoringCase ==
    [][req'.cmd = "chkpass"
          => /\ UNCHANGED <<dbvars, memvars>>
             /\ chkpass_fail(req'.tm) # "" => reply' = chkpass_fail(req'.tm)
             /\ chkpass_fail(req'.tm) = ""
                  => /\ reply' \in {"ok", "bad"}
                     /\ reply' = "ok"
                          <=> \E u \in users_root :
                                /\ Live(u) /\ u.username = req'.tm["username"]
                                /\ StrCaseEq(u.passwordhash, req'.tm["passwordhash"])]_vars

C10_Witness ==
    /\ req.cmd = "chkpass"
    /\ reply = "ok"
    /\ \E u \in users_root :
         /\ Live(u) /\ u.username = req.tm["username"]
         /\ u.passwordhash # req.tm["passwordhash"]

\* C10 as stated: chkpass is answered ok when a live users row of the
\* username holds exactly the passwordhash of the request and bad otherwise,
\* and changes no table
C10_ChkpassExact ==
    [][req'.cmd = "chkpass"
          => /\ UNCHANGED <<dbvars, memvars>>
             /\ reply' \in {"ok", "bad"}
             /\ reply' = "ok"
                  <=> \E u \in users_root :
                        /\ Live(u) /\ HasName(req'.tm, "username")
                        /\ HasName(req'.tm, "passwordhash")
                        /\ u.username = req'.tm["username"]
                        /\ u.passwordhash = req'.tm["passwordhash"]]_vars

\* the message the connection delivered, as listener() reads it
Delivered == StripEol(sockd.buf)

\* the id of a message: the text before its first '.', as much of it as the
\* id buffer of the listener holds
IdOf(buf) == StrNCpy(SubSeq(buf, 1, strchr(buf, ".") - 1), ID_SIZ)

\* C11: every accepted connection that delivers a non-empty message gets
\* exactly one reply and is closed, whatever the command and the outcome of
\* the handler, and the reply is <id>.<now_sec>.<handler_reply> with the id
\* of the request
C11_OneReply ==
    [](Delivered # ""
         => /\ Len(sockd.sent) = 1
            /\ sockd.closed
            /\ strchr(Delivered, ".") # 0
                 => sockd.sent[1] = listener_reply(IdOf(Delivered), now, reply))

\* C12: a shutdown command is answered exiting and ends the accept loop, no
\* request is processed once the loop has ended, and every command other
\* than shutdown leaves the loop running
C12_ShutdownEndsLoop ==
    [][/\ running
       /\ req'.cmd = "shutdown"
            => /\ reply' = "exiting" /\ ~running'
               /\ sockd'.sent = <<listener_reply(IdOf(StripEol(sockd'.buf)), now', "exiting")>>
               /\ UNCHANGED <<dbvars, memvars, paymentsvars>>
       /\ req'.cmd # "shutdown" => running']_vars

\* the message has no '.'
NoDot(buf) == \A i \in 1..Len(buf) : Ch(buf, i) # "."

\* C13 (amended): an empty message is dropped silently, with no reply and no
\* change of a table; a message that is not empty and has no '.' is answered
\* <message>.<now_sec>.? (the message cut to the size of the id), runs no
\* handler and changes no table
C13_EmptyDropped ==
    [][/\ StripEol(sockd'.buf) = ""
            => /\ sockd'.sent = <<>> /\ sockd'.closed /\ running'
               /\ reply' = "" /\ stmts' = <<>>
               /\ UNCHANGED <<dbvars, memvars, paymentsvars>>
       /\ StripEol(sockd'.buf) # "" /\ NoDot(StripEol(sockd'.buf))
            => /\ sockd'.sent = <<StrNCpy(StripEol(sockd'.buf), ID_SIZ) \o "."
                                    \o bigint_to_buf(now'.day * SecsPerDay + now'.sod)
                                    \o ".?">>
               /\ sockd'.closed /\ running'
               /\ req'.tm = <<>> /\ stmts' = <<>>
               /\ UNCHANGED <<dbvars, memvars, paymentsvars>>]_vars

C13_Witness ==
    /\ Delivered # "" /\ NoDot(Delivered)
    /\ Len(sockd.sent) = 1
    /\ sockd.closed

\* C13 as stated: a message that is empty or has no '.' gets no reply and
\* changes no table
C13_SilentDrop ==
    [][StripEol(sockd'.buf) = "" \/ NoDot(StripEol(sockd'.buf))
          => /\ sockd'.sent = <<>>
             /\ UNCHANGED <<dbvars, memvars, paymentsvars>>]_vars

\* the text of a message after its id, the command of a message and whether
\* it has a data segment
AfterId(buf) == StrFrom(buf, strchr(buf, ".") + 1)
HasData(buf) == ~NoDot(AfterId(buf))
CmdOf(buf) ==
    IF HasData(buf) THEN SubSeq(AfterId(buf), 1, strchr(AfterId(buf), ".") - 1)
    ELSE AfterId(buf)
DataOf(buf) == StrFrom(AfterId(buf), strchr(AfterId(buf), ".") + 1)

\* C14: the command of a message is matched against the command table
\* ignoring case; a message whose command is not in the table is answered
\* <id>.<now_sec>.?, runs no handler and leaves the transfer map and every
\* table as they were
C14_UnknownCommand ==
    [][~NoDot(StripEol(sockd'.buf))
          => /\ (\A i \in 1..Len(cmds) :
                     ~StrCaseEq(CmdOf(StripEol(sockd'.buf)), cmds[i].cmd_str))
                  => /\ sockd'.sent = <<listener_reply(IdOf(StripEol(sockd'.buf)), now', "?")>>
                     /\ req' = [cmd |-> "", tm |-> <<>>]
                     /\ stmts' = <<>> /\ running'
                     /\ UNCHANGED <<dbvars, memvars, paymentsvars>>
             /\ \A i \in 1..Len(cmds) :
                    /\ StrCaseEq(CmdOf(StripEol(sockd'.buf)), cmds[i].cmd_str)
                    /\ HasData(StripEol(sockd'.buf))
                    => \/ req'.cmd = cmds[i].cmd_str
                       \/ /\ HasPrefix(DataOf(StripEol(sockd'.buf)), JSON_TRANSFER)
                          /\ reply' = "?"]_vars

C14_Witness ==
    /\ ~NoDot(Delivered)
    /\ \A i \in 1..Len(cmds) : ~StrCaseEq(CmdOf(Delivered), cmds[i].cmd_str)
    /\ sockd.sent = <<listener_reply(IdOf(Delivered), now, "?")>>

\* C15: a message id.cmd with a known command and no data segment is handled
\* like one with an empty data segment: it is answered, ping with pong (as
\* it is with data) and the listener keeps running, shutdown with exiting,
\* and a handler sees an empty transfer map
C15_NoDataAsEmpty ==
    [][/\ ~NoDot(StripEol(sockd'.buf))
       /\ \E i \in 1..Len(cmds) : StrCaseEq(CmdOf(StripEol(sockd'.buf)), cmds[i].cmd_str)
       => /\ ~HasData(StripEol(sockd'.buf))
               => /\ Len(sockd'.sent) = 1
                  /\ req'.tm = <<>>
                  /\ \E i \in 1..Len(cmds) : req'.cmd = cmds[i].cmd_str
          /\ StrCaseEq(CmdOf(StripEol(sockd'.buf)), "ping")
               => /\ sockd'.sent = <<listener_reply(IdOf(StripEol(sockd'.buf)), now', "pong")>>
                  /\ running'
          /\ StrCaseEq(CmdOf(StripEol(sockd'.buf)), "shutdown")
               => sockd'.sent
                    = <<listener_reply(IdOf(StripEol(sockd'.buf)), now', "exiting")>>]_vars

\* the fields of a data segment, in order
RECURSIVE SplitFields(_)
SplitFields(data) ==
    IF data = "" THEN <<>>
    ELSE IF strchr(data, FLDSEP) = 0 THEN <<data>>
    ELSE <<SubSeq(data, 1, strchr(data, FLDSEP) - 1)>>
         \o SplitFields(StrFrom(data, strchr(data, FLDSEP) + 1))

\* the name and the value of a field
FieldPair(f) ==
    IF strchr(f, "=") = 0 THEN <<StrNCpy(f, NAME_SIZE + 1), "">>
    ELSE <<StrNCpy(SubSeq(f, 1, strchr(f, "=") - 1), NAME_SIZE + 1),
           StrNCpy(StrFrom(f, strchr(f, "=") + 1), VALUE_SIZE + 1)>>

\* the names and values a data segment gives, in order: those of its fields,
\* or those of the members of its JSON object that breakdown() takes
PairsOf(data) ==
    IF HasPrefix(data, JSON_TRANSFER)
    THEN LET Taken(ms) == [i \in DOMAIN ms |-> <<StrNCpy(ms[i].key, NAME_SIZE + 1),
                                                  json_data(ms[i])>>]
         IN  Taken(SelectSeq(json_loads(StrFrom(data, Len(JSON_TRANSFER) + 1)).members,
                             LAMBDA m : m.typ # "other"))
    ELSE LET Split(fs) == [i \in DOMAIN fs |-> FieldPair(fs[i])]
         IN  Split(SplitFields(data))

\* the transfer map of the first occurrence of every name
FirstOccurrences(pairs) ==
    [n \in {pairs[i][1] : i \in DOMAIN pairs}
        |-> pairs[CHOOSE i \in DOMAIN pairs :
                    /\ pairs[i][1] = n
                    /\ \A j \in DOMAIN pairs : pairs[j][1] = n => i <= j][2]]

\* the request was taken apart by breakdown() and went to its command
BrokenDown == req.cmd # "" /\ ~NoDot(Delivered) /\ HasData(Delivered)

C17_RequireNameOrder ==
    req.cmd = "require_name" =>
        LET Present == req.name \in DOMAIN req.tm
            Long == Len(req.tm[req.name]) >= req.len
            Compiles == req.patt = nopatt \/ ~req.rec
            Matches == req.patt = nopatt \/ regexec(req.patt, req.tm[req.name])
        IN  /\ reply = IF ~Present THEN "failed.missing " \o req.name
                       ELSE IF ~Long THEN "failed.short " \o req.name
                       ELSE IF ~Compiles THEN "failed.REC " \o req.name
                       ELSE IF ~Matches THEN "failed.invalid " \o req.name
                       ELSE ""
            /\ req.item <=> reply = ""
            /\ req.optional <=> req.item

C17_Witness ==
    /\ req.cmd = "require_name"
    /\ req.name \in DOMAIN req.tm
    /\ Len(req.tm[req.name]) < req.len
    /\ req.patt # nopatt
    /\ ~regexec(req.patt, req.tm[req.name])
    /\ reply = "failed.short " \o req.name
    /\ ~req.item /\ ~req.optional

\* C18: users_add() allocates the userid by adding to the lastid of userid
\* an increment that lies in [666, 999]; workers_add() and auths_add()
\* allocate workerid and authid by adding exactly 1 to their lastid
C18_IdIncrements ==
    [][/\ db_idcontrol'["userid"] # db_idcontrol["userid"]
            => db_idcontrol'["userid"] - db_idcontrol["userid"] \in 666..999
       /\ db_idcontrol'["workerid"] # db_idcontrol["workerid"]
            => db_idcontrol'["workerid"] = db_idcontrol["workerid"] + 1
       /\ db_idcontrol'["authid"] # db_idcontrol["authid"]
            => db_idcontrol'["authid"] = db_idcontrol["authid"] + 1
       /\ \A u \in users_root' \ users_root :
            /\ u.userid = db_idcontrol'["userid"]
            /\ u.userid - db_idcontrol["userid"] \in 666..999
       /\ \A w \in workers_root' \ workers_root : w.workerid = db_idcontrol["workerid"] + 1
       /\ \A a \in auths_root' \ auths_root : a.authid = db_idcontrol["authid"] + 1]_vars

C18_Witness ==
    /\ req.cmd = "adduser"
    /\ HasPrefix(reply, "added.")
    /\ \E u, v \in users_root :
          /\ u.username = req.tm["username"]
          /\ u.userid = db_idcontrol["userid"]
          /\ u.userid - v.userid = 999
    /\ \E w, x \in workers_root :
          w.workerid = db_idcontrol["workerid"] /\ w.workerid = x.workerid + 1
    /\ \E a \in auths_root : a.authid = db_idcontrol["authid"]

\* nextid() returned 0 for idname: its select or its update failed
NextidZero(st, idname) ==
    Failed(st, {"select idcontrol " \o idname, "update idcontrol " \o idname})

\* C19: nextid() returns 0 when its select or its update fails, and the
\* caller that receives 0 (users_add, workers_add, auths_add) takes the row
\* as failed: it issues no insert for it, links nothing into memory and
\* reports the failure to its handler, which does not reply added
C19_ZeroIsFailure ==
    [][/\ NextidZero(stmts', "userid")
            => /\ \A i \in 1..Len(stmts') : stmts'[i].sql # "insert users"
               /\ UNCHANGED <<usersvars, db_users>>
               /\ ~HasPrefix(reply', "added.")
       /\ NextidZero(stmts', "workerid")
            => /\ \A i \in 1..Len(stmts') : stmts'[i].sql # "insert workers"
               /\ UNCHANGED <<workersvars, db_workers>>
               /\ ~HasPrefix(reply', "added.")
       /\ NextidZero(stmts', "authid")
            => /\ \A i \in 1..Len(stmts') : stmts'[i].sql # "insert auths"
               /\ UNCHANGED <<authsvars, db_auths>>
               /\ ~HasPrefix(reply', "added.")]_vars

\* the rows of payments_root of a user
PaymentsOf(userid) == {p \in payments_root : p.userid = userid}

\* the three fields of the row ordered n-th, n counting from 0, and those
\* of the rows after it
RECURSIVE PaymentsText(_, _)
PaymentsText(order, n) ==
    IF n = Len(order) THEN ""
    ELSE "paydate" \o NatToText(n) \o "=" \o tv_to_buf(order[n + 1].paydate) \o FLDSEP
         \o "payaddress" \o NatToText(n) \o "=" \o order[n + 1].payaddress \o FLDSEP
         \o "amount" \o NatToText(n) \o "=" \o NatToText(order[n + 1].amount) \o FLDSEP
         \o PaymentsText(order, n + 1)

\* rep is ok. with every row of rows once, in paydate ascending order, and
\* their number
PaymentsOk(rows, rep) ==
    \E order \in [1..Cardinality(rows) -> rows] :
        /\ \A i, j \in DOMAIN order : i < j => order[i] # order[j]
        /\ \A i, j \in DOMAIN order : i < j => TvCmp(order[i].paydate, order[j].paydate) <= 0
        /\ rep = "ok." \o PaymentsText(order, 0) \o "rows=" \o NatToText(Cardinality(rows))

\* the reply to a payments request for username
PaymentsReply(username, rep) ==
    IF \E u \in users_root : Live(u) /\ u.username = username
    THEN \A u \in users_root :
            Live(u) /\ u.username = username => PaymentsOk(PaymentsOf(u.userid), rep)
    ELSE rep = "bad"

\* C20 (amended): payments changes no table and leaves the payments free
\* list as it found it; for a username of at least 3 characters that matches
\* userpatt it replies ok. with the paydateN, payaddressN and amountN of
\* every payments row of the user and of no other, in paydate ascending order
\* with N from 0, and rows=<their number> when the user exists, and bad when
\* not; for any other username it replies what require_name() wrote
C20_PaymentsValidated ==
    [][req'.cmd = "payments"
          => /\ UNCHANGED <<dbvars, memvars, paymentsvars>>
             /\ stmts' = <<>>
             /\ IF require_name(req'.tm, "username", 3, userpatt) # ""
                THEN reply' = require_name(req'.tm, "username", 3, userpatt)
                ELSE PaymentsReply(req'.tm["username"], reply')]_vars

C20_Witness ==
    /\ req.cmd = "payments"
    /\ Cardinality(PaymentsOf(666)) = 2
    /\ Cardinality(payments_root) > 2
    /\ \E first, last \in PaymentsOf(666) :
          /\ TvCmp(first.paydate, last.paydate) < 0
          /\ reply = "ok." \o PaymentsText(<<first, last>>, 0) \o "rows=2"
    /\ sockd.sent = <<listener_reply(IdOf(Delivered), now, reply)>>

\* C20 as stated: every username that is not that of a user is answered bad
C20_PaymentsReply ==
    [][req'.cmd = "payments" /\ HasName(req'.tm, "username")
          => /\ UNCHANGED <<dbvars, memvars, paymentsvars>>
             /\ PaymentsReply(req'.tm["username"], reply')]_vars

\* the rows of a tree that are live, as the columns the DB holds
LiveColumns(root) == {DbRow(r) : r \in {x \in root : Live(x)}}

\* the live rows of root are those of the table db, one item for each
LiveAsDB(root, db) ==
    /\ LiveColumns(root) = {r \in db : Live(r)}
    /\ Cardinality({x \in root : Live(x)}) = Cardinality({r \in db : Live(r)})

\* the reload cmd returned and the DB answered its select
ReloadedFrom(cmd, table) ==
    req'.cmd = cmd /\ running' /\ stmts' = <<Stmt("select " \o table, TRUE)>>

C22_ReferencesAreEarlier ==
    \A s \in shares_root \cup shareerrors_root :
        /\ \E wi \in workinfo_root :
              wi.workinfoid = s.workinfoid /\ TvCmp(wi.createdate, s.createdate) < 0
        /\ \E w \in workers_root :
              /\ w.userid = s.userid /\ w.workername = s.workername
              /\ TvCmp(w.createdate, s.createdate) < 0

\* C23: a per-request DB session that cannot be opened is not fatal: the
\* handler that asked for it replies failed.DBE or bad.DBE, the process is
\* not aborted and goes on serving requests
C23_ConnectFailureIsNonFatal ==
    [][(faults' > faults /\ stmts' = <<>>)
         => (running' /\ reply' \in {"failed.DBE", "bad.DBE"})]_vars

\* C24: no handler ends the process because of what the request supplies: a
\* request during which the DB fails at nothing leaves the daemon running
C24_NoAbortOnUserData ==
    [][(running /\ faults' = faults) => running']_vars

\* the method of a request is the lower-case word m, in whatever case
MethodIs(tm, m) ==
    /\ Len(tm["method"]) = Len(m)
    /\ \A i \in 1..Len(m) :
          \/ Ch(tm["method"], i) = Ch(m, i)
          \/ Ord(Ch(tm["method"], i)) + 32 = Ord(Ch(m, i))

\* a request of cmd that carries a method
HasMethod(r, cmd) == r.cmd = cmd /\ "method" \in DOMAIN r.tm /\ r.tm["method"] # ""

\* C25: sharelog dispatches on its method, compared without regard to case:
\* workinfo changes nothing but what workinfo_add() writes, shares nothing
\* but the shares index and shareerror nothing but the shareerrors index, and
\* each of them that is answered added. has added a row there; any other
\* method is answered bad.method and changes nothing; none of the three is
\* answered bad.method. authorise issues a statement or changes a table only
\* when its method is authorise, and is answered bad.method with nothing
\* changed otherwise
C25_MethodDispatch ==
    [][/\ HasMethod(req', "sharelog") =>
            IF MethodIs(req'.tm, "workinfo")
            THEN /\ UNCHANGED <<db_users, db_workers, db_auths, db_poolstats, db_idcontrol,
                                usersvars, workersvars, sharesvars, authsvars, poolstatsvars>>
                 /\ reply' # "bad.method"
                 /\ HasPrefix(reply', "added.") => workinfo_root' # workinfo_root
            ELSE IF MethodIs(req'.tm, "shares")
            THEN /\ UNCHANGED <<dbvars, usersvars, workersvars, workinfovars, authsvars,
                                poolstatsvars, shareerrors_root, shareerrors_list>>
                 /\ stmts' = <<>>
                 /\ reply' # "bad.method"
                 /\ HasPrefix(reply', "added.") => shares_root' # shares_root
            ELSE IF MethodIs(req'.tm, "shareerror")
            THEN /\ UNCHANGED <<dbvars, usersvars, workersvars, workinfovars, authsvars,
                                poolstatsvars, shares_root, shares_list>>
                 /\ stmts' = <<>>
                 /\ reply' # "bad.method"
                 /\ HasPrefix(reply', "added.") => shareerrors_root' # shareerrors_root
            ELSE /\ reply' = "bad.method" /\ stmts' = <<>> /\ running'
                 /\ UNCHANGED <<dbvars, memvars>>
       /\ HasMethod(req', "authorise") /\ ~MethodIs(req'.tm, "authorise") =>
            /\ reply' = "bad.method" /\ stmts' = <<>> /\ running'
            /\ UNCHANGED <<dbvars, memvars>>
       /\ HasMethod(req', "authorise") /\ MethodIs(req'.tm, "authorise") =>
            reply' # "bad.method"]_vars

\* a request with method SHARES has linked a shares row
C25_Witness ==
    /\ HasMethod(req, "sharelog") /\ req.tm["method"] = "SHARES"
    /\ HasPrefix(reply, "added.")
    /\ \E s \in shares_root : s.workinfoid = 9 /\ s.createdate = now

\* the id segment of the message delivered last: the text before its first '.'
IdSegment == SubSeq(Delivered, 1, strchr(Delivered, ".") - 1)

\* every reply sent starts with the first n characters of the id segment, or
\* with all of it when it is shorter, and the '.' that ends the id
ReplyHasId(n) ==
    LET id == IF Len(IdSegment) < n THEN IdSegment ELSE SubSeq(IdSegment, 1, n)
    IN  \A i \in 1..Len(sockd.sent) : HasPrefix(sockd.sent[i], id \o ".")

ReadOps == {"find_users", "find_workers", "find_workinfo", "find_after_in_ktree"}
WriteOps == {"k_unlink_head", "k_add_head", "add_to_ktree"}

\* C27: every read of an index is made while the handler holds the lock of
\* that entity, and every insertion while it holds it exclusively
C27_AccessesHoldLock ==
    \A p \in Procs :
        /\ proc[p].acc.op \in ReadOps
             => \E l \in proc[p].held : l.list = proc[p].acc.index
        /\ proc[p].acc.op \in WriteOps
             => [list |-> proc[p].acc.index, mode |-> "W"] \in proc[p].held

\* the live row of memory that the workers_update() request r is about
UpdatedWorker(r, w) ==
    /\ r.cmd = "workers_update"
    /\ w.userid = r.tm["userid"] /\ w.workername = r.tm["workername"]
    /\ w.expirydate = default_expiry

\* the request r asks for the three attributes w has already
ChangesNothing(r, w) ==
    LET Same(set) ==
            /\ set.difficultydefault = w.difficultydefault
            /\ set.idlenotificationenabled = w.idlenotificationenabled
            /\ set.idlenotificationtime = w.idlenotificationtime
    IN  Same(workers_update_settings(w, r.tm["difficultydefault"],
                                     r.tm["idlenotificationenabled"],
                                     r.tm["idlenotificationtime"]))

\* C28: a workers_update() whose values change none of the three attributes
\* of the row issues no DB statement and leaves the row of memory as it was
\* in every field, the create fields included
C28_NoChangeIsNoop ==
    [][\A w \in workers_root :
          (UpdatedWorker(req', w) /\ ChangesNothing(req', w))
            => /\ stmts' = <<>>
               /\ running'
               /\ db_workers' = db_workers
               /\ workers_root' = workers_root]_vars

\* C29: a workers_update() that changes an attribute is all or nothing: when
\* it fails the DB and the row of memory stay as they were; when it
\* succeeds the DB holds the old version expired at the time of the request
\* and the new live row, and memory holds one live row of the worker; in
\* both cases the live row of memory is the live row of the DB
C29_UpdateAllOrNothing ==
    [][\A w \in workers_root :
          (UpdatedWorker(req', w) /\ ~ChangesNothing(req', w))
            => LET mem == {m \in workers_root' :
                             /\ m.userid = w.userid /\ m.workername = w.workername
                             /\ m.expirydate = default_expiry}
               IN  /\ running'
                   /\ Cardinality(mem) = 1
                   /\ \A m \in mem : DbRow(m) \in db_workers'
                   /\ reply' = "false"
                        => db_workers' = db_workers /\ workers_root' = workers_root
                   /\ reply' = "true"
                        => /\ [DbRow(w) EXCEPT !.expirydate = now'] \in db_workers'
                           /\ DbRow(w) \notin db_workers'
                           /\ \A m \in mem : m.createdate = now']_vars

\* C30: an authorise request answered bad.DBE leaves the workers table, the
\* auths table and idcontrol as they were, in the DB and in memory, and an
\* adduser request answered failed.DBE leaves users and idcontrol as they were
C30_FailureChangesNothing ==
    [][/\ (req'.cmd = "authorise" /\ reply' = "bad.DBE")
            => UNCHANGED <<db_workers, db_auths, db_idcontrol, workers_root, auths_root>>
       /\ (req'.cmd = "adduser" /\ reply' = "failed.DBE")
            => UNCHANGED <<db_users, db_idcontrol, users_root, userid_root>>]_vars

\* C31: the indexes of memory hold live rows only: after getdata and after
\* every reload no row of the users, workers, payments, workinfo or auths
\* index has an expirydate other than default_expiry, whatever expired
\* versions the DB holds
C31_OnlyLiveRowsFilled ==
    /\ \A r \in users_root : r.expirydate = default_expiry
    /\ \A r \in workers_root : r.expirydate = default_expiry
    /\ \A r \in payments_root : r.expirydate = default_expiry
    /\ \A r \in workinfo_root : r.expirydate = default_expiry
    /\ \A r \in auths_root : r.expirydate = default_expiry

\* C32: at most one live row per business key in the indexes kept in memory
\* only: no two shares rows agree on workinfoid, userid, createdate and
\* nonce, and no two shareerrors rows on workinfoid, userid and createdate,
\* also when the same share is sent twice with the same createdate
C32_OneLiveSharePerKey ==
    /\ \A a, b \in shares_root :
          (/\ a.workinfoid = b.workinfoid /\ a.userid = b.userid
           /\ a.createdate = b.createdate /\ a.nonce = b.nonce
           /\ a.expirydate = default_expiry /\ b.expirydate = default_expiry) => a = b
    /\ \A a, b \in shareerrors_root :
          (/\ a.workinfoid = b.workinfoid /\ a.userid = b.userid
           /\ a.createdate = b.createdate
           /\ a.expirydate = default_expiry /\ b.expirydate = default_expiry) => a = b

\* C33: a shares request whose username is a live user, whose workinfoid is
\* that of a workinfo row linked in memory and whose worker is a live
\* workers row of the user is accepted: it is answered added.<nonce> and
\* exactly one shares row is linked
C33_ResolvableShareAccepted ==
    [][(/\ HasMethod(req', "sharelog") /\ MethodIs(req'.tm, "shares")
        /\ sharelog_shares_fail(req'.tm) = ""
        /\ \E u \in users_root :
              /\ u.username = req'.tm["username"] /\ u.expirydate = default_expiry
              /\ \E w \in workers_root :
                    /\ w.userid = u.userid /\ w.workername = req'.tm["workername"]
                    /\ w.expirydate = default_expiry
        /\ \E wi \in workinfo_root : wi.workinfoid = Atoll(req'.tm["workinfoid"]))
         => /\ reply' = "added." \o req'.tm["nonce"]
            /\ Cardinality(shares_root') = Cardinality(shares_root) + 1]_vars

\* C34: the transfer map is empty whenever the listener is to take a
\* request: it is cleared after every request but shutdown, and the map a
\* handler is given holds the fields of the message just delivered and
\* nothing of an earlier request
C34_TransferCleared ==
    [][/\ running' => transfer_root' = <<>>
       /\ Delivered' # "" => req'.tm = Received[sockd'.buf].tm]_vars

\* bob was added by an earlier request, and a chkpass without fields is
\* answered that it has no username
C34_Witness ==
    /\ \E u \in users_root : u.username = "bob"
    /\ Delivered = "16.chkpass"
    /\ req.cmd = "chkpass" /\ req.tm = <<>>
    /\ reply = "failed.missing username"
    /\ transfer_root = <<>>

\* C35: every workers row that workers_add() links has its difficultydefault
\* within DIFFICULTYDEFAULT_MIN..DIFFICULTYDEFAULT_MAX and its
\* idlenotificationtime within IDLENOTIFICATIONTIME_MIN..IDLENOTIFICATIONTIME_MAX,
\* whatever texts it was given and whatever the item held before
C35_WorkerSettingsInRange ==
    [][\A w \in workers_root' \ workers_root :
          /\ w.difficultydefault >= DIFFICULTYDEFAULT_MIN
          /\ w.difficultydefault <= DIFFICULTYDEFAULT_MAX
          /\ w.idlenotificationtime >= IDLENOTIFICATIONTIME_MIN
          /\ w.idlenotificationtime <= IDLENOTIFICATIONTIME_MAX]_vars

(***************************************************************************)
(* breakdown() of the same fields in the two encodings                     *)
(***************************************************************************)
\* the names and the string values of the fields the clients send
EncNames == {"username", "workername", Repeat("n", 64)}
EncValues == {"", "alice", "a=b", Repeat("x", VALUE_SIZE), Repeat("x", VALUE_SIZE + 1)}

\* the longest message of the encodings, in fields
MaxFields == 2

\* a field: eq tells whether the dot frame writes the '=' of an empty value
EncFields ==
    {f \in [name : EncNames, value : EncValues, eq : BOOLEAN] : f.value # "" => f.eq}

\* the messages: one to MaxFields fields
EncMessages == UNION {[1..n -> EncFields] : n \in 1..MaxFields}

\* the fields as name=value separated by FLDSEP
RECURSIVE DotFrame(_)
DotFrame(flds) ==
    LET One(f) == IF f.eq THEN f.name \o "=" \o f.value ELSE f.name
    IN  IF flds = <<>> THEN ""
        ELSE IF Len(flds) = 1 THEN One(Head(flds))
        ELSE One(Head(flds)) \o FLDSEP \o DotFrame(Tail(flds))

\* the fields as the members of a JSON object after JSON_TRANSFER
RECURSIVE JsonMembers(_)
JsonMembers(flds) ==
    LET One(f) == "\"" \o f.name \o "\":\"" \o f.value \o "\""
    IN  IF flds = <<>> THEN ""
        ELSE IF Len(flds) = 1 THEN One(Head(flds))
        ELSE One(Head(flds)) \o "," \o JsonMembers(Tail(flds))

JsonFrame(flds) == JSON_TRANSFER \o "{" \o JsonMembers(flds) \o "}"

\* breakdown() of one message in both encodings, for the first request of a
\* run: req keeps the fields, the transfer map of the dot frame (tm) and
\* that of the JSON object (json)
BreakdownCall ==
    /\ nreq = 0
    /\ nreq' = 1
    /\ \E flds \in EncMessages :
        /\ req' = [cmd |-> "breakdown", flds |-> flds,
                   tm |-> breakdown("1.ping." \o DotFrame(flds)).tm,
                   json |-> breakdown("1.ping." \o JsonFrame(flds)).tm]
        /\ reply' = ""
    /\ UNCHANGED <<dbvars, memvars, paymentsvars, sockd, transfer_root, now, running,
                   stmts, conns, faults, proc>>

NextEncodings == BreakdownCall

SpecEncodings == Init /\ [][NextEncodings]_vars

\* C36: the dot frame and the JSON object of the same fields leave the same
\* transfer map, and each field the map holds for a name has the complete
\* value of the first field of that name, whatever its length; a field
\* without '=' has the empty value
C36_EncodingsEquivalent ==
    req.cmd = "breakdown" =>
        /\ req.tm = req.json
        /\ \A i \in 1..Len(req.flds) :
              (\A j \in 1..(i - 1) : req.flds[j].name # req.flds[i].name) =>
                  req.tm[StrNCpy(req.flds[i].name, NAME_SIZE + 1)] = req.flds[i].value

\* C37: when the listener sends the reply of a request, no DB session that
\* was opened for the request is still open
C37_NoSessionLeftOpen ==
    [][Len(sockd'.sent) > 0 /\ sockd'.sent # sockd.sent => conns' = 0]_vars

C37_Witness ==
    /\ req.cmd \in {"adduser", "poolstats", "newid", "sharelog", "authorise"}
    /\ stmts # <<>>
    /\ Len(sockd.sent) = 1
    /\ conns = 0

(***************************************************************************)
(* The lock sections of the handlers, one K_WLOCK, K_WUNLOCK, list or      *)
(* index operation or DB round trip a step                                 *)
(***************************************************************************)
\* an instruction: op made on the list, index or table on; skip is the
\* instruction the code goes to when the operation fails or finds nothing,
\* 0 when it goes on either way
Ins(op, on, skip) == [op |-> op, on |-> on, skip |-> skip]

\* the operations that are a round trip to the DB
DbOps == {"nextid", "PQexecParams", "dbconnect", "PQfinish"}

\* users_add()
users_add_code ==
    <<Ins("K_WLOCK", "users", 0), Ins("k_unlink_head", "users", 0),
      Ins("K_WUNLOCK", "users", 0),
      Ins("nextid", "userid", 6), Ins("PQexecParams", "users", 0),
      Ins("K_WLOCK", "users", 0), Ins("add_to_ktree", "users", 0),
      Ins("K_WUNLOCK", "users", 0)>>

\* workinfo_add()
workinfo_add_code ==
    <<Ins("K_WLOCK", "workinfo", 0), Ins("k_unlink_head", "workinfo", 0),
      Ins("K_WUNLOCK", "workinfo", 0),
      Ins("PQexecParams", "workinfo", 0),
      Ins("K_WLOCK", "workinfo", 0), Ins("add_to_ktree", "workinfo", 0),
      Ins("K_WUNLOCK", "workinfo", 0)>>

\* shares_add()
shares_add_code ==
    <<Ins("K_WLOCK", "shares", 0), Ins("k_unlink_head", "shares", 0),
      Ins("K_WUNLOCK", "shares", 0),
      Ins("find_users", "users", 7), Ins("find_workinfo", "workinfo", 7),
      Ins("find_workers", "workers", 7),
      Ins("K_WLOCK", "shares", 0), Ins("add_to_ktree", "shares", 0),
      Ins("K_WUNLOCK", "shares", 0)>>

\* auths_add() kept from releasing auths_list before its lookups
auths_add_code_held ==
    <<Ins("K_WLOCK", "auths", 0), Ins("k_unlink_head", "auths", 0),
      Ins("find_users", "users", 15),
      Ins("find_workers", "workers", 0),
      Ins("K_WLOCK", "workers", 0), Ins("k_unlink_head", "workers", 0),
      Ins("K_WUNLOCK", "workers", 0),
      Ins("nextid", "workerid", 10), Ins("PQexecParams", "workers", 0),
      Ins("K_WLOCK", "workers", 0), Ins("add_to_ktree", "workers", 0),
      Ins("K_WUNLOCK", "workers", 0),
      Ins("nextid", "authid", 15), Ins("PQexecParams", "auths", 0),
      Ins("add_to_ktree", "auths", 0),
      Ins("K_WUNLOCK", "auths", 0)>>

\* auths_add(), with new_worker() and the workers_add() it calls when
\* find_workers() finds no worker
auths_add_code ==
    <<Ins("K_WLOCK", "auths", 0), Ins("k_unlink_head", "auths", 0),
      Ins("K_WUNLOCK", "auths", 0),
      Ins("find_users", "users", 16),
      Ins("find_workers", "workers", 14),
      Ins("K_WLOCK", "workers", 0), Ins("k_unlink_head", "workers", 0),
      Ins("K_WUNLOCK", "workers", 0),
      Ins("nextid", "workerid", 11), Ins("PQexecParams", "workers", 0),
      Ins("K_WLOCK", "workers", 0), Ins("add_to_ktree", "workers", 0),
      Ins("K_WUNLOCK", "workers", 0),
      Ins("nextid", "authid", 16), Ins("PQexecParams", "auths", 0),
      Ins("K_WLOCK", "auths", 0), Ins("add_to_ktree", "auths", 0),
      Ins("K_WUNLOCK", "auths", 0)>>

\* poolstats_add(): the insert is skipped when store is false
poolstats_add_code ==
    <<Ins("K_WLOCK", "poolstats", 0), Ins("k_unlink_head", "poolstats", 0),
      Ins("K_WUNLOCK", "poolstats", 0),
      Ins("store", "poolstats", 6), Ins("PQexecParams", "poolstats", 0),
      Ins("K_WLOCK", "poolstats", 0), Ins("add_to_ktree", "poolstats", 0),
      Ins("K_WUNLOCK", "poolstats", 0)>>

\* cmd_newid() after its require_name() calls
cmd_newid_code ==
    <<Ins("K_WLOCK", "idcontrol", 0), Ins("k_unlink_head", "idcontrol", 0),
      Ins("K_WUNLOCK", "idcontrol", 0),
      Ins("dbconnect", "", 0), Ins("PQexecParams", "idcontrol", 0),
      Ins("PQfinish", "", 0),
      Ins("K_WLOCK", "idcontrol", 0), Ins("k_add_head", "idcontrol", 0),
      Ins("K_WUNLOCK", "idcontrol", 0)>>

\* cmd_payments() after its require_name() call
cmd_payments_code ==
    <<Ins("find_users", "users", 9),
      Ins("K_WLOCK", "payments", 0), Ins("k_unlink_head", "payments", 0),
      Ins("K_WUNLOCK", "payments", 0),
      Ins("find_after_in_ktree", "payments", 0),
      Ins("K_WLOCK", "payments", 0), Ins("k_add_head", "payments", 0),
      Ins("K_WUNLOCK", "payments", 0)>>

\* the code of every function that takes a lock for a request
LockCode ==
    [users_add |-> users_add_code, workinfo_add |-> workinfo_add_code,
     shares_add |-> shares_add_code, auths_add |-> auths_add_code,
     poolstats_add |-> poolstats_add_code, cmd_newid |-> cmd_newid_code,
     cmd_payments |-> cmd_payments_code]

\* handler p runs one of the functions and stands before an instruction
Running(p) == proc[p].pc \in DOMAIN LockCode
NextIns(p) == LockCode[proc[p].pc][proc[p].id]

\* handler p stands before a K_WLOCK of a list that a handler holds
Blocked(p) ==
    /\ Running(p)
    /\ NextIns(p).op = "K_WLOCK"
    /\ \E q \in Procs : K_WLOCK(NextIns(p).on) \cap proc[q].held # {}

OrderKeep ==
    UNCHANGED <<dbvars, memvars, paymentsvars, sockd, transfer_root, now, running, req,
                reply, stmts, conns, nreq, faults>>

\* the listener hands a request to a handler that calls the function
OrderStart(p) ==
    /\ proc[p].pc \in {"idle", "done"}
    /\ \E f \in DOMAIN LockCode :
          proc' = [proc EXCEPT ![p] = [IdleProc EXCEPT !.pc = f, !.id = 1]]
    /\ OrderKeep

\* handler p executes the instruction it stands before and goes on with
\* the next one, or with the one the instruction skips to
OrderStep(p) ==
    /\ Running(p)
    /\ ~Blocked(p)
    /\ LET At(ins, to) ==
               proc' = [proc EXCEPT ![p] =
                   [Access(p, ins.op, ins.on,
                           IF ins.op = "K_WLOCK" THEN proc[p].held \cup K_WLOCK(ins.on)
                           ELSE IF ins.op = "K_WUNLOCK" THEN proc[p].held \ K_WLOCK(ins.on)
                           ELSE proc[p].held)
                       EXCEPT !.id = to,
                              !.pc = IF to > Len(LockCode[proc[p].pc]) THEN "done"
                                     ELSE proc[p].pc]]
       IN  \/ At(NextIns(p), proc[p].id + 1)
           \/ NextIns(p).skip # 0 /\ At(NextIns(p), NextIns(p).skip)
    /\ OrderKeep

NextLockOrder == \E p \in Procs : OrderStart(p) \/ OrderStep(p)

SpecLockOrder == Init /\ [][NextLockOrder]_vars

\* C38: no handler holds more than one table lock at a time, none holds a
\* lock while it makes a round trip to the DB, and whenever a handler waits
\* for a lock some handler that does not wait can go on: no deadlock
C38_OneLockNoDeadlock ==
    /\ \A p \in Procs :
          /\ Cardinality(proc[p].held) <= 1
          /\ proc[p].acc.op \in DbOps => proc[p].held = {}
          /\ proc[p].pc = "done" => proc[p].held = {}
    /\ (\E p \in Procs : Blocked(p)) => \E q \in Procs : Running(q) /\ ~Blocked(q)

C38_Witness ==
    \E p, q \in Procs :
        /\ proc[p].pc = "auths_add" /\ proc[p].held = K_WLOCK("auths")
        /\ proc[q].pc = "auths_add" /\ proc[q].acc = [op |-> "PQexecParams", index |-> "auths"]
        /\ Blocked(q)

\* the replies of require_name() for a field that is missing, too short or
\* does not match its pattern
ValidationFailed(r) ==
    \E pre \in {"failed.missing ", "failed.short ", "failed.invalid "} : HasPrefix(r, pre)

\* C39: a request for adduser, chkpass, payments, newid, sharelog or
\* authorise that is answered failed.missing, failed.short or failed.invalid
\* issues no DB statement, leaves no DB session open, and leaves the DB
\* tables, idcontrol, the indexes and the free lists as they were
C39_ValidationFailureHasNoEffect ==
    [][(/\ req'.cmd \in {"adduser", "chkpass", "payments", "newid", "sharelog", "authorise"}
        /\ ValidationFailed(reply'))
          => /\ stmts' = <<>>
             /\ conns' = conns
             /\ faults' = faults
             /\ UNCHANGED <<dbvars, memvars, paymentsvars>>]_vars

C39_Witness ==
    /\ req.cmd = "adduser"
    /\ reply = "failed.short username"
    /\ Len(sockd.sent) = 1 /\ HasPrefix(sockd.sent[1], "28.")
    /\ \E u \in users_root : u.username = "bob"

====
